---- MODULE Spec2Model ----
(***************************************************************************)
(* Depth-bounded crawl engine of scrapper-v2: link classification          *)
(* (utils/childLinkExtractor.js), the breadth-first walker                 *)
(* (utils/websiteContentScraper.js), the session guard and the body of the *)
(* entry points (scrapers/leadScraper.js), the governed classifier calls   *)
(* (utils/leadExtractor.js) and the lead processing of DataProcessor       *)
(* (utils/proxyManager.js).                                                *)
(*                                                                         *)
(* Strings are sequences of tokens (TLC cannot look inside a string).      *)
(* The vocabulary is chosen so that every configured pattern and keyword   *)
(* is one token or a sequence of whole tokens of the strings it can occur  *)
(* in: token-level startsWith / includes / === then agree with the         *)
(* character-level JavaScript operations on the concatenated strings.      *)
(***************************************************************************)
EXTENDS Integers, Sequences, FiniteSets, TLC

VARIABLES
    urls,                 \* scrapeWebsitesWithDepth argument: the seed urlData list
    maxDepth,             \* scrapeWebsitesWithDepth argument
    maxChildLinksPerPage, \* ChildLinkExtractor.maxChildLinksPerPage
    visitedUrls,          \* ChildLinkExtractor.visitedUrls
    pc,                   \* position of the walker's coroutine
    currentDepth,         \* loop variable of scrapeWebsitesWithDepth
    urlsToProcess,        \* local of scrapeWebsitesWithDepth
    processedUrls,        \* local of scrapeWebsitesWithDepth
    allResults,           \* local of scrapeWebsitesWithDepth
    batches,              \* local of scrapeWebsites (lists of urlData)
    batchIdx,             \* loop variable i of scrapeWebsites
    batchIds,             \* the promises handed to Promise.allSettled
    results,              \* local of scrapeWebsites
    fetches,              \* every scrapeWebsite call started so far, in start order
    outcome,              \* batchResults: status and value of each settled promise,
                          \* and whether the page had too little text
    isRunning,            \* LeadScraper.isRunning
    browserOpen,          \* GoogleScraper: browser / context are open
    callers,              \* callers of LeadScraper.scrapeLeads / scrapeUrls
    extraction,           \* one filterAndProcessLinks call: arguments and return value
    failureCount,         \* LeadExtractor.failureCount
    lastFailureTime,      \* LeadExtractor.lastFailureTime
    circuitOpen,          \* LeadExtractor.circuitOpen
    now,                  \* Date.now()
    websiteData,          \* extractLeads argument: the scraped pages
    pageIdx,              \* extractLeads: position of its for loop
    batchNo,              \* processLargeContent: position of its for loop
    allLeads,             \* processLargeContent: local allLeads
    extractorPc,          \* position of the extractLeads coroutine
    attempt,              \* retryWithBackoff: loop variable
    invocations,          \* operation() calls made by the latest retryWithBackoff
    extracted,            \* extractLeads: local results
    pageLog,              \* how the governed call of each page ended
    lastError,            \* retryWithBackoff: the error its catch block caught
    entryPoint,           \* the entry point that runs: "scrapeUrls" or "scrapeLeads"
    targets,              \* its urls or keywords, each with what the web holds for it
    itemIdx,              \* i of its for loop
    scraperLeads,         \* LeadScraper.leads
    exported,             \* the lead lists exportData has written, in order
    entryPc,              \* position of the entry point
    delivered             \* what the caller of the entry point receives

governor == <<failureCount, lastFailureTime, circuitOpen, now, websiteData, pageIdx,
              batchNo, allLeads,
              extractorPc, attempt, invocations, extracted, pageLog, lastError>>

pipeline == <<entryPoint, targets, itemIdx, scraperLeads, exported, entryPc, delivered>>

walker == <<urls, maxDepth, maxChildLinksPerPage, visitedUrls, pc, currentDepth,
            urlsToProcess, processedUrls, allResults, batches, batchIdx,
            batchIds, results, fetches, outcome, extraction>>

vars == <<urls, maxDepth, maxChildLinksPerPage, visitedUrls, pc, currentDepth,
          urlsToProcess, processedUrls, allResults, batches, batchIdx, batchIds,
          results, fetches, outcome, isRunning, browserOpen, callers, extraction, governor, pipeline>>

----------------------------------------------------------------------------
(* Bounds of the model *)

MaxSeeds == 2
MaxDepthArg == 2
MaxCap == 2
MaxRawLinks == 2
MaxCalls == 3
MaxUnits == 2
MaxUrls == 2
MaxTicks == 3
MaxDeepArg == 5

----------------------------------------------------------------------------
(* JavaScript string operations on token sequences *)

startsWith(s, p) == Len(p) <= Len(s) /\ SubSeq(s, 1, Len(p)) = p

includes(s, p) ==
    \E i \in 1..(Len(s) - Len(p) + 1) : SubSeq(s, i, i + Len(p) - 1) = p

LowerTable ==
    ("About" :> "about") @@ (" Us" :> " us") @@ ("Download" :> "download") @@
    ("Top" :> "top") @@ ("Our " :> "our ") @@ ("Team" :> "team") @@
    ("Go" :> "go") @@ ("Back to the homepage" :> "back to the homepage") @@
    ("Contact" :> "contact") @@ ("Services" :> "services") @@ ("Careers" :> "careers")

toLowerCase(s) ==
    [i \in 1..Len(s) |-> IF s[i] \in DOMAIN LowerTable THEN LowerTable[s[i]] ELSE s[i]]

CharTable ==
    ("about" :> 5) @@ (" us" :> 3) @@ ("download" :> 8) @@ ("top" :> 3) @@
    ("our " :> 4) @@ ("team" :> 4) @@ ("go" :> 2) @@ ("back to the homepage" :> 20) @@
    (">>>" :> 3) @@ (" " :> 1) @@
    ("contact" :> 7) @@ ("services" :> 8) @@ ("careers" :> 7)

\* tokens without a letter, and tokens of white space
NoLetters == {">>>", " "}

WhiteSpace == {" "}

RECURSIVE trimStart(_)
trimStart(s) == IF s # <<>> /\ Head(s) \in WhiteSpace THEN trimStart(Tail(s)) ELSE s

RECURSIVE trimEnd(_)
trimEnd(s) ==
    IF s # <<>> /\ s[Len(s)] \in WhiteSpace THEN trimEnd(SubSeq(s, 1, Len(s) - 1)) ELSE s

trim(s) == trimEnd(trimStart(s))

RECURSIVE length(_)
length(s) == IF s = <<>> THEN 0 ELSE CharTable[Head(s)] + length(Tail(s))

----------------------------------------------------------------------------
(* config.DEPTH_SCRAPING *)

DEPTH_SCRAPING_ENABLED == TRUE

MAX_DEPTH == 3

EXCLUDE_PATTERNS ==
    << <<"mailto:">>, <<"tel:">>, <<"javascript:">>, <<"#">>, <<".pdf">>,
       <<".jpg">>, <<".png">>, <<".gif">>, <<".css">>, <<".js">>, <<".xml">>,
       <<".zip">>, <<".rar">>, <<"facebook.com">>, <<"twitter.com">>,
       <<"instagram.com">>, <<"linkedin.com">>, <<"youtube.com">>,
       <<"google.com">>, <<"amazon.com">>, <<"wikipedia.org">> >>

INCLUDE_PATTERNS ==
    << <<"/about">>, <<"/about", "-us">>, <<"/profile">>, <<"/contact">>,
       <<"/contact", "-us">>, <<"/services">>, <<"/products">>, <<"/team">>,
       <<"/company">>, <<"/blog">>, <<"/news">>, <<"/careers">> >>

relevantKeywords ==
    { <<"about">>, <<"contact">>, <<"services">>, <<"products">>, <<"team">>,
      <<"company">>, <<"blog">>, <<"news">>, <<"careers">>, <<"staff">>,
      <<"leadership">>, <<"management">>, <<"portfolio">>, <<"gallery">>,
      <<"testimonials">>, <<"reviews">>, <<"faq">>, <<"help">>, <<"support">>,
      <<"location">>, <<"address">>, <<"phone">>, <<"email">> }

genericNavTexts ==
    { <<"home">>, <<"main">>, <<"menu">>, <<"navigation">>, <<"nav">>,
      <<"skip">>, <<"top">>, <<"back">>, <<"next">>, <<"previous">>,
      <<"more">>, <<"less">>, <<"show">>, <<"hide">> }

----------------------------------------------------------------------------
(* WHATWG URL, as far as the extractor uses it *)

Schemes == {"https://", "http://", "ftp://"}

Hosts == {"example.com", "other.org", "facebook.com"}

\* new URL(url) succeeds
ValidUrl(url) == Len(url) >= 2 /\ url[1] \in Schemes /\ url[2] \in Hosts

\* new URL(url).protocol
protocol(url) ==
    CASE url[1] = "https://" -> "https:"
      [] url[1] = "http://" -> "http:"
      [] OTHER -> "ftp:"

\* new URL(url).hostname
hostname(url) == url[2]

\* new URL(href, baseUrl).toString() for an href that is absolute or starts
\* with "/": an absolute href keeps its own origin, a path keeps the base's
URLResolve(href, baseUrl) ==
    IF Head(href) \in Schemes THEN href
    ELSE <<baseUrl[1], baseUrl[2]>> \o href

Null == <<>>

----------------------------------------------------------------------------
(* The environment: seed URLs a caller can pass and anchors a page can hold *)

SeedUrls ==
    { <<"https://", "example.com">>,
      <<"https://", "other.org">> }

WalkLinks ==
    { [href |-> <<"/about">>, text |-> <<"About", " Us">>],
      [href |-> <<"/x", ".pdf">>, text |-> <<"About", " Us">>],
      [href |-> <<"https://", "example.com", "/team">>, text |-> <<"Our ", "Team">>],
      [href |-> <<"https://", "example.com">>, text |-> <<"Back to the homepage">>] }

\* further anchors, for the extractor on its own
Links ==
    WalkLinks \cup
    { [href |-> <<"https://", "facebook.com", "/team">>, text |-> <<"Our ", "Team">>],
      [href |-> <<"https://", "other.org", "/team">>, text |-> <<"Our ", "Team">>],
      [href |-> <<"#">>, text |-> <<"Top">>],
      [href |-> <<"/go">>, text |-> <<"Go">>],
      [href |-> <<"/news">>, text |-> <<">>>">>],
      [href |-> <<"/x", ".pdf">>, text |-> <<"Download">>],
      [href |-> <<"#", "top">>, text |-> <<"Top">>] }

\* the anchors of a site whose pages hold one link each, for walks deeper
\* than MAX_DEPTH
DeepLinks ==
    { [href |-> <<"/about">>, text |-> <<"About", " Us">>],
      [href |-> <<"/contact">>, text |-> <<"Contact">>],
      [href |-> <<"/services">>, text |-> <<"Services">>],
      [href |-> <<"/careers">>, text |-> <<"Careers">>] }

\* a page holding the anchors (/about, About Us), (/x.pdf, Download) and
\* (#top, Top), in any document order
ScenarioPages ==
    LET a == [href |-> <<"/about">>, text |-> <<"About", " Us">>]
        b == [href |-> <<"/x", ".pdf">>, text |-> <<"Download">>]
        c == [href |-> <<"#", "top">>, text |-> <<"Top">>]
    IN  { <<a, b, c>>, <<a, c, b>>, <<b, a, c>>, <<b, c, a>>, <<c, a, b>>, <<c, b, a>> }

\* a page with the same relative link in its header and in its body, followed
\* by two further links
RepeatedAnchorPage ==
    << [href |-> <<"/about">>, text |-> <<"About", " Us">>],
       [href |-> <<"/about">>, text |-> <<"About", " Us">>],
       [href |-> <<"https://", "example.com">>, text |-> <<"Back to the homepage">>],
       [href |-> <<"https://", "example.com", "/team">>, text |-> <<"Our ", "Team">>] >>

----------------------------------------------------------------------------
(* utils/childLinkExtractor.js *)

\* resolveUrl without its test for a fragment-only href
resolveUrlNoFragmentTest(href, baseUrl) ==
    IF \/ startsWith(href, <<"javascript:">>)
       \/ startsWith(href, <<"mailto:">>)
       \/ startsWith(href, <<"tel:">>)
    THEN Null
    ELSE IF startsWith(href, <<"http://">>) \/ startsWith(href, <<"https://">>)
    THEN href
    ELSE IF ~ValidUrl(baseUrl) \/ (Head(href) \in Schemes /\ ~ValidUrl(href))
    THEN Null
    ELSE URLResolve(href, baseUrl)

resolveUrl(href, baseUrl) ==
    IF \/ startsWith(href, <<"javascript:">>)
       \/ startsWith(href, <<"mailto:">>)
       \/ startsWith(href, <<"tel:">>)
       \/ startsWith(href, <<"#">>)
    THEN Null
    ELSE IF startsWith(href, <<"http://">>) \/ startsWith(href, <<"https://">>)
    THEN href
    ELSE IF ~ValidUrl(baseUrl) \/ (Head(href) \in Schemes /\ ~ValidUrl(href))
    THEN Null
    ELSE URLResolve(href, baseUrl)

getDomain(url) == IF ValidUrl(url) THEN hostname(url) ELSE ""

\* the classification without its exclude-pattern loop
isValidChildLinkNoExclude(url, link, baseDomain) ==
    LET linkText == toLowerCase(link.text)
        hasRelevantKeyword == \E keyword \in relevantKeywords : includes(linkText, keyword)
    IN  IF ~ValidUrl(url) THEN FALSE
        ELSE IF protocol(url) \notin {"http:", "https:"} THEN FALSE
        ELSE IF hostname(url) # baseDomain THEN FALSE
        ELSE IF \E k \in 1..Len(INCLUDE_PATTERNS) : includes(url, INCLUDE_PATTERNS[k])
        THEN TRUE
        ELSE IF length(linkText) < 3 THEN FALSE
        ELSE IF linkText \in genericNavTexts THEN FALSE
        ELSE hasRelevantKeyword \/ length(linkText) > 10

\* the same-host test left out
isValidChildLinkAnyHost(url, link, baseDomain) ==
    LET linkText == toLowerCase(link.text)
        hasRelevantKeyword == \E keyword \in relevantKeywords : includes(linkText, keyword)
    IN  IF ~ValidUrl(url) THEN FALSE
        ELSE IF protocol(url) \notin {"http:", "https:"} THEN FALSE
        ELSE IF \E k \in 1..Len(EXCLUDE_PATTERNS) :
                   \/ includes(url, EXCLUDE_PATTERNS[k])
                   \/ includes(toLowerCase(link.text), toLowerCase(EXCLUDE_PATTERNS[k]))
        THEN FALSE
        ELSE IF \E k \in 1..Len(INCLUDE_PATTERNS) : includes(url, INCLUDE_PATTERNS[k])
        THEN TRUE
        ELSE IF length(linkText) < 3 THEN FALSE
        ELSE IF linkText \in genericNavTexts THEN FALSE
        ELSE hasRelevantKeyword \/ length(linkText) > 10

isValidChildLink(url, link, baseDomain) ==
    LET linkText == toLowerCase(link.text)
        hasRelevantKeyword == \E keyword \in relevantKeywords : includes(linkText, keyword)
    IN  IF ~ValidUrl(url) THEN FALSE
        ELSE IF protocol(url) \notin {"http:", "https:"} THEN FALSE
        ELSE IF \E k \in 1..Len(EXCLUDE_PATTERNS) :
                   \/ includes(url, EXCLUDE_PATTERNS[k])
                   \/ includes(toLowerCase(link.text), toLowerCase(EXCLUDE_PATTERNS[k]))
        THEN FALSE
        ELSE IF hostname(url) # baseDomain THEN FALSE
        ELSE IF \E k \in 1..Len(INCLUDE_PATTERNS) : includes(url, INCLUDE_PATTERNS[k])
        THEN TRUE
        ELSE IF length(linkText) < 3 THEN FALSE
        ELSE IF linkText \in genericNavTexts THEN FALSE
        ELSE hasRelevantKeyword \/ length(linkText) > 10

\* Every URL a page of the model can have: the seeds and what the anchors
\* resolve to on them
PageUrls ==
    LET origins == { <<u[1], u[2]>> : u \in SeedUrls \cup
                        { l.href : l \in { m \in WalkLinks : Head(m.href) \in Schemes } } }
    IN  SeedUrls \cup ({ resolveUrl(l.href, o) : l \in WalkLinks \cup DeepLinks,
                                                   o \in origins } \ {Null})

\* resolveUrl and isValidChildLink are pure: their values on the model's
\* anchors and pages, evaluated once
resolved ==
    [link \in Links \cup DeepLinks, baseUrl \in PageUrls |-> resolveUrl(link.href, baseUrl)]

valid ==
    [link \in Links \cup DeepLinks, baseUrl \in PageUrls |->
        isValidChildLink(resolved[link, baseUrl], link, getDomain(baseUrl))]

\* The for loop of filterAndProcessLinks from rawLinks[i] on, with the locals
\* childLinks and seenUrls; the loop ends at the break.
RECURSIVE filterLoop(_, _, _, _, _, _)
filterLoop(rawLinks, i, baseUrl, depth, childLinks, seenUrls) ==
    IF i > Len(rawLinks) THEN childLinks
    ELSE LET link == rawLinks[i]
             resolvedUrl == resolved[link, baseUrl]
         IN  IF link.href \in seenUrls
             THEN filterLoop(rawLinks, i + 1, baseUrl, depth, childLinks, seenUrls)
             ELSE IF resolvedUrl = Null
             THEN filterLoop(rawLinks, i + 1, baseUrl, depth, childLinks, seenUrls)
             ELSE IF resolvedUrl \in visitedUrls
             THEN filterLoop(rawLinks, i + 1, baseUrl, depth, childLinks, seenUrls)
             ELSE IF ~valid[link, baseUrl]
             THEN filterLoop(rawLinks, i + 1, baseUrl, depth, childLinks, seenUrls)
             ELSE LET pushed == Append(childLinks,
                                       [url |-> resolvedUrl, depth |-> depth + 1,
                                        parentUrl |-> baseUrl])
                  IN  IF Len(pushed) >= maxChildLinksPerPage
                      THEN pushed
                      ELSE filterLoop(rawLinks, i + 1, baseUrl, depth, pushed,
                                      seenUrls \cup {resolvedUrl})

filterAndProcessLinks(rawLinks, baseUrl, depth) ==
    filterLoop(rawLinks, 1, baseUrl, depth, <<>>, {})

----------------------------------------------------------------------------
(* The open ChildLinkExtractor held in utils/proxyManager.js (lines 1246-1586);
   resolveUrl, getDomain and the visited set are the same code *)

genericNavTextsOpen ==
    { <<"home">>, <<"main">>, <<"menu">>, <<"navigation">>, <<"nav">>,
      <<"skip">>, <<"top">>, <<"back">>, <<"next">>, <<"previous">>,
      <<"more">>, <<"less">>, <<"hide">>, <<"click here">>, <<"read more">>,
      <<"learn more">>, <<"view all">>, <<"see more">> }

isValidChildLinkOpen(url, link, baseDomain) ==
    LET linkText == toLowerCase(link.text)
    IN  IF ~ValidUrl(url) THEN FALSE
        ELSE IF protocol(url) \notin {"http:", "https:"} THEN FALSE
        ELSE IF \E k \in 1..Len(EXCLUDE_PATTERNS) :
                   \/ includes(url, EXCLUDE_PATTERNS[k])
                   \/ includes(toLowerCase(link.text), toLowerCase(EXCLUDE_PATTERNS[k]))
        THEN FALSE
        ELSE IF length(linkText) < 3 THEN FALSE
        ELSE IF linkText \in genericNavTextsOpen THEN FALSE
        ELSE IF length(trim(linkText)) = 0 THEN FALSE
        ELSE IF \A k \in 1..Len(trim(linkText)) : trim(linkText)[k] \in NoLetters THEN FALSE
        ELSE TRUE

validOpen ==
    [link \in Links \cup DeepLinks, baseUrl \in PageUrls |->
        isValidChildLinkOpen(resolved[link, baseUrl], link, getDomain(baseUrl))]

RECURSIVE filterLoopOpen(_, _, _, _, _, _)
filterLoopOpen(rawLinks, i, baseUrl, depth, childLinks, seenUrls) ==
    IF i > Len(rawLinks) THEN childLinks
    ELSE LET link == rawLinks[i]
             resolvedUrl == resolved[link, baseUrl]
         IN  IF link.href \in seenUrls
             THEN filterLoopOpen(rawLinks, i + 1, baseUrl, depth, childLinks, seenUrls)
             ELSE IF resolvedUrl = Null
             THEN filterLoopOpen(rawLinks, i + 1, baseUrl, depth, childLinks, seenUrls)
             ELSE IF resolvedUrl \in visitedUrls
             THEN filterLoopOpen(rawLinks, i + 1, baseUrl, depth, childLinks, seenUrls)
             ELSE IF ~validOpen[link, baseUrl]
             THEN filterLoopOpen(rawLinks, i + 1, baseUrl, depth, childLinks, seenUrls)
             ELSE LET pushed == Append(childLinks,
                                       [url |-> resolvedUrl, depth |-> depth + 1,
                                        parentUrl |-> baseUrl])
                  IN  IF Len(pushed) >= maxChildLinksPerPage
                      THEN pushed
                      ELSE filterLoopOpen(rawLinks, i + 1, baseUrl, depth, pushed,
                                          seenUrls \cup {resolvedUrl})

filterAndProcessLinksOpen(rawLinks, baseUrl, depth) ==
    filterLoopOpen(rawLinks, 1, baseUrl, depth, <<>>, {})

----------------------------------------------------------------------------
(* Page outcomes *)

\* extracted text lengths: a page that is too short, and the threshold
ContentLengths == {40, 100}

SeqsUpTo(S, n) == UNION { [1..k -> S] : k \in 0..n }

----------------------------------------------------------------------------
(* utils/websiteContentScraper.js *)

maxConcurrent == 3

MIN_CONTENT_LENGTH == 100

RECURSIVE createBatchesFrom(_, _, _)
createBatchesFrom(array, i, batchSize) ==
    IF i > Len(array) THEN <<>>
    ELSE <<SubSeq(array, i, IF i + batchSize - 1 < Len(array)
                            THEN i + batchSize - 1 ELSE Len(array))>>
         \o createBatchesFrom(array, i + batchSize, batchSize)

\* the whole array as one batch
createBatchesAllAtOnce(array, batchSize) == IF array = <<>> THEN <<>> ELSE <<array>>

createBatches(array, batchSize) == createBatchesFrom(array, 1, batchSize)

RECURSIVE flatten(_)
flatten(seqs) == IF seqs = <<>> THEN <<>> ELSE Head(seqs) \o flatten(Tail(seqs))

RECURSIVE uniqueByUrl(_, _)
uniqueByUrl(links, seenUrls) ==
    IF links = <<>> THEN <<>>
    ELSE IF Head(links).url \in seenUrls THEN uniqueByUrl(Tail(links), seenUrls)
    ELSE <<Head(links)>> \o uniqueByUrl(Tail(links), seenUrls \cup {Head(links).url})

extractChildLinksFromResults(rs) ==
    uniqueByUrl(flatten([k \in 1..Len(rs) |-> rs[k].childLinks]), {})

\* nothing is filtered out
filterNewKeepsAll(urlDatas, processed) == urlDatas

\* urlsToProcess.filter(urlData => !processedUrls.has(url))
filterNew(urlDatas, processed) == SelectSeq(urlDatas, LAMBDA urlData : urlData.url \notin processed)

urlSetOf(urlDatas) == { urlDatas[k].url : k \in 1..Len(urlDatas) }

Settled(id) == fetches[id].st # "loading"

\* scrapeWebsitesWithDepth, lines 48-61: the call, up to the for loop
Begin ==
    /\ pc = "call"
    /\ allResults' = <<>>
    /\ urlsToProcess' = urls
    /\ processedUrls' = {}
    /\ visitedUrls' = {}
    /\ currentDepth' = 0
    /\ pc' = "loop"
    /\ UNCHANGED <<urls, maxDepth, maxChildLinksPerPage, batches, batchIdx, batchIds,
                   results, fetches, outcome, isRunning, browserOpen, callers, extraction, governor, pipeline>>

\* the loop condition and the two breaks, lines 63-80
LoopExit ==
    /\ pc = "loop"
    /\ \/ currentDepth > maxDepth
       \/ urlsToProcess = <<>>
       \/ filterNew(urlsToProcess, processedUrls) = <<>>
    /\ pc' = "done"
    /\ UNCHANGED <<urls, maxDepth, maxChildLinksPerPage, visitedUrls, currentDepth,
                   urlsToProcess, processedUrls, allResults, batches, batchIdx,
                   batchIds, results, fetches, outcome, isRunning, browserOpen, callers, extraction, governor, pipeline>>

\* lines 71-90 and scrapeWebsites lines 13-17: mark, then enter scrapeWebsites
DepthStart ==
    /\ pc = "loop"
    /\ currentDepth <= maxDepth
    /\ urlsToProcess # <<>>
    /\ LET newUrls == filterNew(urlsToProcess, processedUrls)
       IN  /\ newUrls # <<>>
           /\ processedUrls' = processedUrls \cup urlSetOf(newUrls)
           /\ visitedUrls' = visitedUrls \cup urlSetOf(newUrls)
           /\ batches' = createBatches(newUrls, maxConcurrent)
    /\ results' = <<>>
    /\ batchIdx' = 1
    /\ pc' = "batch"
    /\ UNCHANGED <<urls, maxDepth, maxChildLinksPerPage, currentDepth, urlsToProcess,
                   allResults, batchIds, fetches, outcome, isRunning, browserOpen, callers, extraction, governor, pipeline>>

\* scrapeWebsites lines 19-26: every scrapeWebsite call of the batch is made
StartBatch ==
    /\ pc = "batch"
    /\ batchIdx <= Len(batches)
    /\ LET batch == batches[batchIdx]
       IN  /\ fetches' = fetches \o [k \in 1..Len(batch) |->
                              [url |-> batch[k].url, depth |-> currentDepth, st |-> "loading"]]
           /\ batchIds' = [k \in 1..Len(batch) |-> Len(fetches) + k]
    /\ pc' = "await"
    /\ UNCHANGED <<urls, maxDepth, maxChildLinksPerPage, visitedUrls, currentDepth,
                   urlsToProcess, processedUrls, allResults, batches, batchIdx,
                   results, outcome, isRunning, browserOpen, callers, extraction, governor, pipeline>>

\* the anchors extractChildLinks can find on a page: any MaxRawLinks of
\* WalkLinks, or, in a walk deeper than MaxDepthArg, one of DeepLinks
pageAnchors ==
    IF maxDepth > MaxDepthArg THEN SeqsUpTo(DeepLinks, 1)
    ELSE SeqsUpTo(WalkLinks, MaxRawLinks)

\* scrapeWebsite extracting child links at every depth
scrapeResultAnyDepth(id, rawLinks) ==
    LET f == fetches[id]
    IN  [url |-> f.url, depth |-> f.depth,
         childLinks |-> IF DEPTH_SCRAPING_ENABLED
                        THEN filterAndProcessLinks(rawLinks, f.url, f.depth)
                        ELSE <<>>]

\* extractChildLinks called without the depth: currentDepth defaults to 0
scrapeResultDefaultDepth(id, rawLinks) ==
    LET f == fetches[id]
    IN  [url |-> f.url, depth |-> f.depth,
         childLinks |-> IF DEPTH_SCRAPING_ENABLED /\ f.depth < MAX_DEPTH
                        THEN filterAndProcessLinks(rawLinks, f.url, 0)
                        ELSE <<>>]

\* scrapeWebsite lines 150-181: the value returned for a page that was loaded
scrapeResult(id, rawLinks) ==
    LET f == fetches[id]
    IN  [url |-> f.url, depth |-> f.depth,
         childLinks |-> IF DEPTH_SCRAPING_ENABLED /\ f.depth < MAX_DEPTH
                        THEN filterAndProcessLinks(rawLinks, f.url, f.depth)
                        ELSE <<>>]

\* the length test left out
scrapeValueNoLengthCheck(id, contentLength, rawLinks) == <<scrapeResult(id, rawLinks)>>

\* scrapeWebsite lines 150-184 for a page that was loaded: what the call
\* returns, null (the empty sequence) or the one result
scrapeValue(id, contentLength, rawLinks) ==
    IF contentLength < MIN_CONTENT_LENGTH THEN <<>> ELSE <<scrapeResult(id, rawLinks)>>

\* page.close() as the last statement of the try block, no finally block
pageAfterTryOnly(opened, value) ==
    IF ~opened THEN "none" ELSE IF value # <<>> THEN "closed" ELSE "open"

\* lines 132, 137 and 185-189: the page of a call when it settles. The page
\* variable is null until newPage() resolves; the finally block closes the
\* page it holds, whatever the try block returned or threw (a page.close()
\* that rejects found the page gone).
pageAfter(opened, value) == IF opened THEN "closed" ELSE "none"

\* One scrapeWebsite call, lines 131-190, from its start to its settling
FetchSettle(id) ==
    /\ pc # "exited"
    /\ fetches[id].st = "loading"
    /\ \E opened \in BOOLEAN :
       \/ \* context.newPage() throws (closed context), or the page is opened and
          \* page.goto throws (timeout, DNS failure, refused connection): the
          \* catch returns null
          outcome' = outcome @@ (id :> [status |-> "fulfilled", value |-> <<>>,
                                        insufficient |-> FALSE,
                                        page |-> pageAfter(opened, <<>>)])
       \/ \* the page loads, with too little text (line 154 throws, the catch
          \* returns null) or with enough text (the result is returned)
          /\ opened
          /\ browserOpen
          /\ \E contentLength \in ContentLengths :
             \E value \in { scrapeValue(id, contentLength, rawLinks) :
                               rawLinks \in pageAnchors } :
                outcome' = outcome @@
                    (id :> [status |-> "fulfilled", value |-> value,
                            insufficient |-> contentLength < MIN_CONTENT_LENGTH,
                            page |-> pageAfter(opened, value)])
       \/ \* page.close() throws in the finally: the promise rejects
          /\ opened
          /\ outcome' = outcome @@ (id :> [status |-> "rejected", value |-> <<>>,
                                           insufficient |-> FALSE,
                                           page |-> pageAfter(opened, <<>>)])
    /\ fetches' = [fetches EXCEPT ![id].st =
                       IF outcome'[id].value # <<>> THEN "returned" ELSE "failed"]
    /\ UNCHANGED <<urls, maxDepth, maxChildLinksPerPage, visitedUrls, pc, currentDepth,
                   urlsToProcess, processedUrls, allResults, batches, batchIdx,
                   batchIds, results, isRunning, browserOpen, callers, extraction, governor, pipeline>>

\* Promise.race in place of Promise.allSettled
anySettled(ids) == \E k \in 1..Len(ids) : Settled(ids[k])

\* Promise.allSettled resolves once every promise of the batch has settled
allSettled(ids) == \A k \in 1..Len(ids) : Settled(ids[k])

\* Promise.all in place of Promise.allSettled: one rejection loses the batch
successfulAll(ids) ==
    IF \E k \in 1..Len(ids) : ids[k] \in DOMAIN outcome /\ outcome[ids[k]].status = "rejected"
    THEN <<>>
    ELSE flatten([k \in 1..Len(ids) |->
                    IF ids[k] \in DOMAIN outcome THEN outcome[ids[k]].value ELSE <<>>])

\* lines 28-30: the values of the fulfilled promises that are not null
successful(ids) ==
    flatten([k \in 1..Len(ids) |->
                IF ids[k] \in DOMAIN outcome /\ outcome[ids[k]].status = "fulfilled"
                THEN outcome[ids[k]].value ELSE <<>>])

\* scrapeWebsites lines 22-37
AwaitBatch ==
    /\ pc = "await"
    /\ allSettled(batchIds)
    /\ results' = results \o successful(batchIds)
    /\ outcome' = [k \in DOMAIN outcome \ {batchIds[j] : j \in 1..Len(batchIds)}
                     |-> outcome[k]]
    /\ batchIdx' = batchIdx + 1
    /\ batchIds' = <<>>
    /\ pc' = "batch"
    /\ UNCHANGED <<urls, maxDepth, maxChildLinksPerPage, visitedUrls, currentDepth,
                   urlsToProcess, processedUrls, allResults, batches,
                   fetches, isRunning, browserOpen, callers, extraction, governor, pipeline>>

\* What the model keeps of a result once its child links have been read
returned(result) == [url |-> result.url, depth |-> result.depth]

\* an off-by-one in the comparison
hasMoreDepthInclusive(depth) == depth <= maxDepth

\* lines 94 and 117: the walk goes one level deeper
hasMoreDepth(depth) == depth < maxDepth

childUrlData(link) == [url |-> link.url, depth |-> link.depth, parentUrl |-> link.parentUrl]

\* scrapeWebsites line 45, then scrapeWebsitesWithDepth lines 90-122
Expand ==
    /\ pc = "batch"
    /\ batchIdx > Len(batches)
    /\ allResults' = allResults \o [k \in 1..Len(results) |-> returned(results[k])]
    /\ IF hasMoreDepth(currentDepth)
       THEN LET childLinks == extractChildLinksFromResults(results)
            IN  urlsToProcess' = urlsToProcess \o
                                 [k \in 1..Len(childLinks) |-> childUrlData(childLinks[k])]
       ELSE urlsToProcess' = urlsToProcess
    /\ currentDepth' = currentDepth + 1
    /\ results' = <<>>
    /\ batches' = <<>>
    /\ batchIdx' = 1
    /\ pc' = "loop"
    /\ UNCHANGED <<urls, maxDepth, maxChildLinksPerPage, visitedUrls, processedUrls,
                   batchIds, fetches, outcome, isRunning, browserOpen, callers, extraction, governor, pipeline>>

----------------------------------------------------------------------------
(* The session around the walk: scrapers/leadScraper.js and index.js *)

\* LeadScraper.stop, lines 376-382
Stop ==
    /\ pc \notin {"closed", "exited"}
    /\ isRunning
    /\ isRunning' = FALSE
    /\ browserOpen' = FALSE
    /\ UNCHANGED <<urls, maxDepth, maxChildLinksPerPage, visitedUrls, pc, currentDepth,
                   urlsToProcess, processedUrls, allResults, batches, batchIdx,
                   batchIds, results, fetches, outcome, callers, extraction, governor, pipeline>>

\* the finally of scrapeUrls / scrapeLeads once the walk has returned
Finish ==
    /\ pc = "done"
    /\ isRunning' = FALSE
    /\ browserOpen' = FALSE
    /\ pc' = "closed"
    /\ UNCHANGED <<urls, maxDepth, maxChildLinksPerPage, visitedUrls, currentDepth,
                   urlsToProcess, processedUrls, allResults, batches, batchIdx,
                   batchIds, results, fetches, outcome, callers, extraction, governor, pipeline>>

\* index.js lines 612-621: SIGINT / SIGTERM call process.exit(0); the process
\* and every object in it are gone, the promises in flight never settle
Terminate ==
    /\ pc \notin {"closed", "exited"}
    /\ pc' = "exited"
    /\ browserOpen' = FALSE
    /\ isRunning' = FALSE
    /\ visitedUrls' = {}
    /\ currentDepth' = 0
    /\ urlsToProcess' = <<>>
    /\ processedUrls' = {}
    /\ allResults' = <<>>
    /\ batches' = <<>>
    /\ batchIdx' = 1
    /\ batchIds' = <<>>
    /\ results' = <<>>
    /\ outcome' = <<>>
    /\ UNCHANGED <<urls, maxDepth, maxChildLinksPerPage, fetches, callers, extraction, governor, pipeline>>

----------------------------------------------------------------------------
(* utils/leadExtractor.js: texts.  A page's content is a sequence of lines,
   a line a sequence of tokens; the tables say what the regular expressions
   of extractBasicLeads find in a token. *)

\* tokens emailRegex matches, and whether the match passes the cleanEmails filter
EmailTable ==
    ("info@acme.io" :> TRUE) @@ ("noreply@acme.io" :> FALSE)

\* tokens phoneRegex matches, and the number of digits of the match
PhoneTable ==
    ("555-123-4567" :> 10)

\* character length of the other tokens
LineTable ==
    ("Acme Corp" :> 9) @@ ("Contact " :> 8) @@ ("Hi" :> 2) @@
    ("info@acme.io" :> 12) @@ ("noreply@acme.io" :> 15) @@ ("555-123-4567" :> 12) @@
    ("(3000 more words)" :> 18000)

\* words of a token: the pieces text.trim().split(/\s+/) cuts it into
WordTable ==
    ("Acme Corp" :> 2) @@ ("Contact " :> 1) @@ ("Hi" :> 1) @@
    ("info@acme.io" :> 1) @@ ("noreply@acme.io" :> 1) @@ ("555-123-4567" :> 1) @@
    ("(3000 more words)" :> 3000)

RECURSIVE wordsIn(_)
wordsIn(tokens) == IF tokens = <<>> THEN 0 ELSE WordTable[Head(tokens)] + wordsIn(Tail(tokens))

RECURSIVE lineLength(_)
lineLength(line) == IF line = <<>> THEN 0 ELSE LineTable[Head(line)] + lineLength(Tail(line))

tokensOf(content) == flatten(content)

countWords(text) == wordsIn(tokensOf(text))

maxWords == 3000

\* extractLeadsFromWebsite: the page goes to processLargeContent
large(data) == countWords(data.content) > maxWords

\* the governed calls a page takes: one in processSingleBatch, one for each
\* batch of splitContentIntoBatches in processLargeContent
batchCount(data) ==
    IF large(data)
    THEN (countWords(data.content) + maxWords - 1) \div maxWords
    ELSE 1

\* content.match(emailRegex) || [], content.match(phoneRegex) || []
matchAll(content, table) == SelectSeq(tokensOf(content), LAMBDA t : t \in DOMAIN table)

extractCompanyName(content) ==
    LET lines == SubSeq(content, 1, IF Len(content) < 10 THEN Len(content) ELSE 10)
        ok(line) == /\ lineLength(line) > 5
                    /\ lineLength(line) < 100
                    /\ \A k \in 1..Len(line) :
                          line[k] \notin DOMAIN EmailTable /\ line[k] \notin DOMAIN PhoneTable
        hits == SelectSeq(lines, ok)
    IN  IF hits = <<>> THEN <<>> ELSE Head(hits)

RECURSIVE extractBasicLeads(_)
extractBasicLeads(websiteDataArray) ==
    IF websiteDataArray = <<>> THEN <<>>
    ELSE LET data == Head(websiteDataArray)
             content == data.content
             cleanEmails == SelectSeq(matchAll(content, EmailTable), LAMBDA e : EmailTable[e])
             cleanPhones == SelectSeq(matchAll(content, PhoneTable),
                                      LAMBDA ph : PhoneTable[ph] >= 10 /\ PhoneTable[ph] <= 15)
             lead == [name |-> "", title |-> "", company |-> extractCompanyName(content),
                      email |-> IF cleanEmails = <<>> THEN "" ELSE cleanEmails[1],
                      phone |-> IF cleanPhones = <<>> THEN "" ELSE cleanPhones[1],
                      sourceUrl |-> data.url]
         IN  (IF cleanEmails # <<>> \/ cleanPhones # <<>> THEN <<lead>> ELSE <<>>)
             \o extractBasicLeads(Tail(websiteDataArray))

----------------------------------------------------------------------------
(* utils/leadExtractor.js: the classifier call, its answers and its errors *)

Pages ==
    { [url |-> <<"https://", "example.com">>,
       content |-> << <<"Acme Corp">>, <<"Contact ", "info@acme.io">>, <<"555-123-4567">> >>],
      [url |-> <<"https://", "other.org">>,
       content |-> << <<"Hi">>, <<"noreply@acme.io">> >>],
      [url |-> <<"https://", "example.com", "/catalogue">>,
       content |-> << <<"Acme Corp">>, <<"(3000 more words)">>, <<"info@acme.io">> >>] }

RECURSIVE unitsOf(_)
unitsOf(websiteDataArray) ==
    IF websiteDataArray = <<>> THEN 0
    ELSE batchCount(Head(websiteDataArray)) + unitsOf(Tail(websiteDataArray))

Ann == [name |-> "Ann", title |-> "CEO", company |-> <<"Acme">>, email |-> "ann@acme.io",
        phone |-> ""]

\* JSON.parse on a cleaned answer: the parsed value, for the texts that are JSON
JsonTable ==
    ("{leads:[Ann]}" :> [leads |-> <<Ann>>]) @@
    ("{leads:[]}" :> [leads |-> <<>>]) @@
    ("{summary:none}" :> [summary |-> "none"])

\* answers of model.generateContent
Responses ==
    { <<"<fence>json", "{leads:[Ann]}", "<fence>">>,
      <<"{leads:[]}">>,
      <<"{summary:none}">>,
      <<"I am sorry, there are ", "<fence>", "no leads">> }

\* messages of the errors model.generateContent throws
Errors ==
    { <<"[GoogleGenerativeAI Error]: ", "503 Service Unavailable">>,
      <<"ETIMEDOUT">>,
      <<"[GoogleGenerativeAI Error]: ", "API key not valid">> }

retryableErrors ==
    { "503 Service Unavailable", "429 Too Many Requests", "500 Internal Server Error",
      "502 Bad Gateway", "504 Gateway Timeout", "ECONNRESET", "ETIMEDOUT", "ENOTFOUND" }

isRetryableError(errorMessage) ==
    \E retryableError \in retryableErrors : includes(errorMessage, <<retryableError>>)

\* response.replace(/<fence>json|<fence>/g, "").trim(), <fence> being the
\* three backquotes of a Markdown code fence
cleanResponse(response) == SelectSeq(response, LAMBDA t : t \notin {"<fence>json", "<fence>"})

\* JSON.parse succeeds and the value has a leads array
parses(response) ==
    LET clean == cleanResponse(response)
    IN  /\ Len(clean) = 1
        /\ clean[1] \in DOMAIN JsonTable
        /\ "leads" \in DOMAIN JsonTable[clean[1]]

parseExtractionResponse(response, data) ==
    IF parses(response)
    THEN LET leads == JsonTable[cleanResponse(response)[1]].leads
         IN  [k \in 1..Len(leads) |->
                 [name |-> leads[k].name, title |-> leads[k].title,
                  company |-> leads[k].company, email |-> leads[k].email,
                  phone |-> leads[k].phone, sourceUrl |-> data.url]]
    ELSE extractBasicLeads(<<data>>)

----------------------------------------------------------------------------
(* utils/leadExtractor.js: circuit breaker and retry loop *)

circuitBreakerThreshold == 5

circuitBreakerTimeout == 300000

maxRetries == 5

breaker ==
    [failureCount |-> failureCount, lastFailureTime |-> lastFailureTime,
     circuitOpen |-> circuitOpen]

\* isCircuitOpen(): its return value at time t ...
isCircuitOpen(b, t) ==
    b.circuitOpen /\ ~(t - b.lastFailureTime > circuitBreakerTimeout)

\* isCircuitOpen resetting the breaker at the last instant of the cooldown
afterIsCircuitOpenAtCooldown(b, t) ==
    IF b.circuitOpen /\ t - b.lastFailureTime >= circuitBreakerTimeout
    THEN [b EXCEPT !.circuitOpen = FALSE, !.failureCount = 0]
    ELSE b

\* ... and the fields it leaves
afterIsCircuitOpen(b, t) ==
    IF b.circuitOpen /\ t - b.lastFailureTime > circuitBreakerTimeout
    THEN [b EXCEPT !.circuitOpen = FALSE, !.failureCount = 0]
    ELSE b

\* recordSuccess closing the circuit and keeping the count
recordSuccessKeepsCount(b) == [b EXCEPT !.circuitOpen = FALSE]

recordSuccess(b) == [b EXCEPT !.failureCount = 0, !.circuitOpen = FALSE]

\* recordFailure opening the circuit one failure late
recordFailureAboveThreshold(b, t) ==
    [failureCount |-> b.failureCount + 1,
     lastFailureTime |-> t,
     circuitOpen |-> IF b.failureCount + 1 > circuitBreakerThreshold
                     THEN TRUE ELSE b.circuitOpen]

recordFailure(b, t) ==
    [failureCount |-> b.failureCount + 1,
     lastFailureTime |-> t,
     circuitOpen |-> IF b.failureCount + 1 >= circuitBreakerThreshold
                     THEN TRUE ELSE b.circuitOpen]

SetBreaker(b) ==
    /\ failureCount' = b.failureCount
    /\ lastFailureTime' = b.lastFailureTime
    /\ circuitOpen' = b.circuitOpen

\* the operationName argument of retryWithBackoff: lines 70 and 131
operationName(data) ==
    (IF large(data) THEN <<"Gemini batch processing for ">> ELSE <<"Gemini extraction for ">>)
    \o data.url

\* the argument retryWithBackoff gives to extractBasicLeads when it gives up
fallbackData(data) == [url |-> operationName(data), content |-> <<>>]

\* A value retryWithBackoff returns is [array |-> leads] (the fallback, or what
\* the operation of processSingleBatch returns) or [text |-> response] (what
\* the operation of processBatchWithContext returns).
fallback(data) == [array |-> extractBasicLeads(<<fallbackData(data)>>)]

\* the leads of parseBatchResponse: response.replace exists for a string only,
\* the TypeError of any other value is caught like a JSON error
parseBatchResponse(response, data) ==
    IF "text" \in DOMAIN response
    THEN parseExtractionResponse(response.text, data)
    ELSE extractBasicLeads(<<data>>)

\* the leads the governed call adds to those of its page: processSingleBatch
\* returns the value of retryWithBackoff, processLargeContent parses it
leadsOf(value, data) ==
    IF large(data) THEN parseBatchResponse(value, data) ELSE value.array

\* the governed call of the current page or batch ends: with a value or, via
\* being "thrown", with an error, which the catch block of processLargeContent
\* (large page) or of extractLeads (other pages) swallows
CallEnds(via, value) ==
    LET data == websiteData[pageIdx]
        leads == IF via = "thrown" THEN <<>> ELSE leadsOf(value, data)
    IN  /\ pageLog' = Append(pageLog, [page |-> pageIdx, via |-> via, leads |-> leads])
        /\ IF batchNo < batchCount(data)
           THEN /\ batchNo' = batchNo + 1
                /\ allLeads' = allLeads \o leads
                /\ UNCHANGED <<pageIdx, extracted>>
           ELSE /\ batchNo' = 1
                /\ allLeads' = <<>>
                /\ pageIdx' = pageIdx + 1
                /\ extracted' = extracted \o allLeads \o leads
        /\ attempt' = 0
        /\ extractorPc' = "loop"

\* extractLeads lines 33-35, processSingleBatch / processBatchWithContext,
\* retryWithBackoff lines 458-468
RetryEnter ==
    /\ extractorPc = "loop"
    /\ pageIdx <= Len(websiteData)
    /\ SetBreaker(afterIsCircuitOpen(breaker, now))
    /\ invocations' = 0
    /\ lastError' = <<>>
    /\ IF isCircuitOpen(breaker, now)
       THEN CallEnds("circuit", fallback(websiteData[pageIdx]))
       ELSE /\ attempt' = 1
            /\ extractorPc' = "retry"
            /\ UNCHANGED <<pageIdx, batchNo, allLeads, extracted, pageLog>>
    /\ UNCHANGED <<now, websiteData, walker, isRunning, browserOpen, callers, pipeline>>

\* retryWithBackoff lines 470-478: the delays are over, operation() is called
Invoke ==
    /\ extractorPc = "retry"
    /\ extractorPc' = "calling"
    /\ invocations' = invocations + 1
    /\ UNCHANGED <<failureCount, lastFailureTime, circuitOpen, now, websiteData, pageIdx,
                   batchNo, allLeads, attempt, extracted, pageLog, lastError, walker,
                   isRunning, browserOpen, callers, pipeline>>

\* the operation resolves: lines 66-70 or 128-131, and 478-480
OperationReturns(response) ==
    /\ extractorPc = "calling"
    /\ SetBreaker(recordSuccess(breaker))
    /\ invocations' = invocations
    /\ lastError' = <<>>
    /\ LET data == websiteData[pageIdx]
       IN  CallEnds(IF parses(response) THEN "classifier" ELSE "parse",
                    IF large(data)
                    THEN [text |-> response]
                    ELSE [array |-> parseExtractionResponse(response, data)])
    /\ UNCHANGED <<now, websiteData, walker, isRunning, browserOpen, callers, pipeline>>

\* line 486: the catch block ends the loop
givesUpOnePastTheLast(errorMessage, att) ==
    ~isRetryableError(errorMessage) \/ att = maxRetries + 1

\* the catch block retrying whatever the error is
givesUpAtTheLastAttemptOnly(errorMessage, att) == att = maxRetries

givesUp(errorMessage, att) ==
    ~isRetryableError(errorMessage) \/ att = maxRetries

\* the operation rejects: lines 481-504
OperationThrows(errorMessage) ==
    /\ extractorPc = "calling"
    /\ SetBreaker(recordFailure(breaker, now))
    /\ invocations' = invocations
    /\ lastError' = errorMessage
    /\ IF givesUp(errorMessage, attempt)
       THEN IF isRetryableError(errorMessage)
            THEN CallEnds("exhausted", fallback(websiteData[pageIdx]))
            ELSE CallEnds("thrown", <<>>)
       ELSE /\ attempt' = attempt + 1
            /\ extractorPc' = "retry"
            /\ UNCHANGED <<pageIdx, batchNo, allLeads, extracted, pageLog>>
    /\ UNCHANGED <<now, websiteData, walker, isRunning, browserOpen, callers, pipeline>>

\* extractLeads lines 46-47
ExtractReturn ==
    /\ extractorPc = "loop"
    /\ pageIdx > Len(websiteData)
    /\ extractorPc' = "returned"
    /\ UNCHANGED <<failureCount, lastFailureTime, circuitOpen, now, websiteData, pageIdx,
                   batchNo, allLeads, attempt, invocations, extracted, pageLog,
                   lastError, walker, isRunning, browserOpen, callers, pipeline>>

\* time passes, half a cooldown at a time: between two governed calls or while
\* the operation is pending (the delays before an attempt are far shorter, and
\* what they add is read by nothing before the operation settles)
Tick ==
    /\ extractorPc \in {"loop", "calling"}
    /\ now < MaxTicks * (circuitBreakerTimeout \div 2)
    /\ now' = now + circuitBreakerTimeout \div 2
    /\ UNCHANGED <<failureCount, lastFailureTime, circuitOpen, websiteData, pageIdx,
                   batchNo, allLeads, extractorPc, attempt, invocations, extracted,
                   pageLog, lastError, walker, isRunning, browserOpen, callers, pipeline>>

\* the LeadExtractor as its constructor leaves it, no extractLeads call
GovernorIdle ==
    /\ failureCount = 0
    /\ lastFailureTime = 0
    /\ circuitOpen = FALSE
    /\ now = 0
    /\ websiteData = <<>>
    /\ pageIdx = 1
    /\ batchNo = 1
    /\ allLeads = <<>>
    /\ extractorPc = "idle"
    /\ attempt = 0
    /\ invocations = 0
    /\ extracted = <<>>
    /\ pageLog = <<>>
    /\ lastError = <<>>

\* a LeadScraper as its constructor leaves it, no entry point running
PipelineIdle ==
    /\ entryPoint = "none"
    /\ targets = <<>>
    /\ itemIdx = 1
    /\ scraperLeads = <<>>
    /\ exported = <<>>
    /\ entryPc = "idle"
    /\ delivered = [kind |-> "pending"]

----------------------------------------------------------------------------
(* scrapers/leadScraper.js: the entry points of one LeadScraper instance.
   A caller is a record [op, pc]; pc is "init" once the guard is passed,
   "scraping" after googleScraper.initialize(), "closing" between the two
   statements of the finally block, then "returned"; "rejected" if the guard
   threw. *)

NoExtraction ==
    [variant |-> "none", rawLinks |-> <<>>, baseUrl |-> <<>>, currentDepth |-> 0,
     childLinks |-> <<>>]

\* scrapeLeads lines 22-27, scrapeUrls lines 189-194
ScrapeCall(op) ==
    /\ pc = "idle"
    /\ Len(callers) < MaxCalls
    /\ IF isRunning
       THEN /\ callers' = Append(callers, [op |-> op, pc |-> "rejected"])
            /\ UNCHANGED isRunning
       ELSE /\ callers' = Append(callers, [op |-> op, pc |-> "init"])
            /\ isRunning' = TRUE
    /\ UNCHANGED <<browserOpen, walker, governor, pipeline>>

\* await this.googleScraper.initialize()
Initialize(c) ==
    /\ callers[c].pc = "init"
    /\ callers' = [callers EXCEPT ![c].pc = "scraping"]
    /\ browserOpen' = TRUE
    /\ UNCHANGED <<isRunning, walker, governor, pipeline>>

\* the body returns or throws; finally: await this.googleScraper.close()
Close(c) ==
    /\ callers[c].pc \in {"init", "scraping"}
    /\ callers' = [callers EXCEPT ![c].pc = "closing"]
    /\ browserOpen' = FALSE
    /\ UNCHANGED <<isRunning, walker, governor, pipeline>>

\* a finally block that ends without clearing the flag
ReturnKeepsFlag(c) ==
    /\ callers[c].pc = "closing"
    /\ callers' = [callers EXCEPT ![c].pc = "returned"]
    /\ UNCHANGED <<isRunning, browserOpen, walker, governor, pipeline>>

\* finally: this.isRunning = false
Return(c) ==
    /\ callers[c].pc = "closing"
    /\ callers' = [callers EXCEPT ![c].pc = "returned"]
    /\ isRunning' = FALSE
    /\ UNCHANGED <<browserOpen, walker, governor, pipeline>>

\* reset(), lines 369-374
Reset ==
    /\ pc = "idle"
    /\ isRunning' = FALSE
    /\ UNCHANGED <<browserOpen, callers, walker, governor, pipeline>>

InitSession ==
    /\ callers = <<>>
    /\ isRunning = FALSE
    /\ browserOpen = FALSE
    /\ extraction = NoExtraction
    /\ GovernorIdle
    /\ PipelineIdle
    /\ urls = <<>>
    /\ maxDepth = 0
    /\ maxChildLinksPerPage = 0
    /\ visitedUrls = {}
    /\ pc = "idle"
    /\ currentDepth = 0
    /\ urlsToProcess = <<>>
    /\ processedUrls = {}
    /\ allResults = <<>>
    /\ batches = <<>>
    /\ batchIdx = 1
    /\ batchIds = <<>>
    /\ results = <<>>
    /\ fetches = <<>>
    /\ outcome = <<>>

NextSession ==
    \/ \E op \in {"scrapeLeads", "scrapeUrls"} : ScrapeCall(op)
    \/ \E c \in DOMAIN callers : Initialize(c)
    \/ \E c \in DOMAIN callers : Close(c)
    \/ \E c \in DOMAIN callers : Return(c)
    \/ Stop
    \/ Reset

SpecSession == InitSession /\ [][NextSession]_vars

----------------------------------------------------------------------------
(* One extractLeads call on a new LeadExtractor *)

InitGovernor ==
    /\ websiteData \in { w \in SeqsUpTo(Pages, MaxUnits) : unitsOf(w) <= MaxUnits }
    /\ extractorPc = "loop"
    /\ failureCount = 0
    /\ lastFailureTime = 0
    /\ circuitOpen = FALSE
    /\ now = 0
    /\ pageIdx = 1
    /\ batchNo = 1
    /\ allLeads = <<>>
    /\ attempt = 0
    /\ invocations = 0
    /\ extracted = <<>>
    /\ pageLog = <<>>
    /\ lastError = <<>>
    /\ PipelineIdle
    /\ extraction = NoExtraction
    /\ callers = <<>>
    /\ isRunning = FALSE
    /\ browserOpen = FALSE
    /\ urls = <<>>
    /\ maxDepth = 0
    /\ maxChildLinksPerPage = 0
    /\ visitedUrls = {}
    /\ pc = "idle"
    /\ currentDepth = 0
    /\ urlsToProcess = <<>>
    /\ processedUrls = {}
    /\ allResults = <<>>
    /\ batches = <<>>
    /\ batchIdx = 1
    /\ batchIds = <<>>
    /\ results = <<>>
    /\ fetches = <<>>
    /\ outcome = <<>>

NextGovernor ==
    \/ RetryEnter
    \/ Invoke
    \/ \E response \in Responses : OperationReturns(response)
    \/ \E errorMessage \in Errors : OperationThrows(errorMessage)
    \/ ExtractReturn
    \/ Tick

SpecGovernor == InitGovernor /\ [][NextGovernor]_vars

----------------------------------------------------------------------------
(* utils/proxyManager.js, class DataProcessor: cleaning, validation, export *)

\* cleanName: leading titles removed, white space normalised, words capitalised
CleanNameTable ==
    ("Ann" :> "Ann") @@ ("Acme Dental" :> "Acme Dental") @@ ("" :> "") @@
    ("Dr. Ann" :> "Ann") @@ ("ANN" :> "ANN") @@ ("Bob" :> "Bob")

\* cleanEmail: lower case, "mailto:" and stray characters removed; "" for a
\* text that is no address or that begins with test@, example@, admin@,
\* info@, noreply@, no-reply@ or donotreply@
CleanEmailTable ==
    ("ann@acme.io" :> "ann@acme.io") @@ ("info@acme.io" :> "") @@ ("" :> "") @@
    ("Ann@Acme.io" :> "ann@acme.io")

\* cleanPhone: the digits and "+" of the text; "" below seven digits
CleanPhoneTable ==
    ("555-123-4567" :> "5551234567") @@ ("" :> "")

\* cleanCompanyName: business suffixes removed, words capitalised
CleanCompanyTable ==
    ("Acme" :> "Acme") @@ ("Acme Corp" :> "Acme") @@ ("Acme Dental" :> "Acme Dental")

\* String.prototype.trim on a title
TrimTable ==
    ("CEO" :> "CEO") @@ ("" :> "")

\* name.toLowerCase().trim() on a cleaned name
LowerNameTable ==
    ("Ann" :> "ann") @@ ("Acme Dental" :> "acme dental") @@ ("" :> "") @@
    ("ANN" :> "ann") @@ ("Bob" :> "bob")

cleanName(name) == CleanNameTable[name]

cleanEmail(email) == CleanEmailTable[email]

cleanPhone(phone) == CleanPhoneTable[phone]

cleanCompanyName(company) == [k \in DOMAIN company |-> CleanCompanyTable[company[k]]]

\* the five fields every lead has; the fields added for a Google My Business
\* lead play no part in validation, de-duplication or export
processLead(lead) ==
    [name |-> cleanName(lead.name),
     title |-> TrimTable[lead.title],
     company |-> cleanCompanyName(lead.company),
     email |-> cleanEmail(lead.email),
     phone |-> cleanPhone(lead.phone)]

\* validateLead without its test of the name
validateLeadContactOnly(lead) == lead.email # "" \/ lead.phone # ""

\* validateLead(lead).isValid
validateLead(lead) == lead.name # "" /\ (lead.email # "" \/ lead.phone # "")

RECURSIVE removeDuplicatesFrom(_, _)
removeDuplicatesFrom(list, seenNameEmail) ==
    IF list = <<>> THEN <<>>
    ELSE LET lead == Head(list)
             nameEmailKey == <<LowerNameTable[lead.name], cleanEmail(lead.email)>>
         IN  IF nameEmailKey \in seenNameEmail
             THEN removeDuplicatesFrom(Tail(list), seenNameEmail)
             ELSE <<lead>> \o removeDuplicatesFrom(Tail(list), seenNameEmail \cup {nameEmailKey})

\* no lead is taken for a duplicate
removeDuplicatesKeepsAll(list) == list

removeDuplicates(list) == removeDuplicatesFrom(list, {})

processLeads(list) ==
    SelectSeq(removeDuplicates([k \in DOMAIN list |-> processLead(list[k])]), validateLead)

OUTPUT_FORMAT == "xlsx"

\* exportData throws: "No leads to export" or "Unsupported format"
exportDataThrows(list) == list = <<>> \/ OUTPUT_FORMAT \notin {"xlsx", "csv"}

----------------------------------------------------------------------------
(* scrapers/leadScraper.js: the body of scrapeUrls and scrapeLeads, after
   initializeBackup. A target is the page the web holds for one URL of
   scrapeUrls, or for the one search result of one keyword of scrapeLeads. *)

createLeadsFromData(extractedData) ==
    [k \in DOMAIN extractedData |->
        [name |-> extractedData[k].name, title |-> extractedData[k].title,
         company |-> extractedData[k].company, email |-> extractedData[k].email,
         phone |-> extractedData[k].phone]]

\* Google My Business listings of a keyword
GmbListings ==
    { <<>>, <<[name |-> "Acme Dental", phone |-> "555-123-4567"]>> }

createLeadsFromGMBData(gmbListings) ==
    LET named == SelectSeq(gmbListings, LAMBDA gmbData : gmbData.name # "")
    IN  [k \in DOMAIN named |->
            [name |-> named[k].name, title |-> "", company |-> <<named[k].name>>,
             email |-> "", phone |-> named[k].phone]]

\* The arrays extractLeads can return for one scraped page: for each of its
\* governed calls the leads of an answer, of the fallback, or none (thrown).
callValues(data) ==
    {fallback(data)} \cup
    { IF large(data) THEN [text |-> response]
                     ELSE [array |-> parseExtractionResponse(response, data)] :
      response \in Responses }

unitResults(data) == { leadsOf(value, data) : value \in callValues(data) } \cup {<<>>}

RECURSIVE batchesResults(_, _)
batchesResults(data, n) ==
    IF n = 0 THEN {<<>>}
    ELSE { a \o b : a \in batchesResults(data, n - 1), b \in unitResults(data) }

extractLeadsResults(data) == batchesResults(data, batchCount(data))

\* scrapeUrls lines 239-242 and 268-271, scrapeLeads lines 57-60 and 156-162:
\* nothing was scraped or found for the target, or a step of its try block
\* threw before any lead was pushed
ItemYieldsNothing ==
    /\ entryPc = "items"
    /\ itemIdx <= Len(targets)
    /\ itemIdx' = itemIdx + 1
    /\ UNCHANGED <<entryPoint, targets, scraperLeads, exported, entryPc, delivered,
                   isRunning, browserOpen, callers, walker, governor>>

\* scrapeUrls lines 244-267, scrapeLeads lines 111-155: the leads of the
\* target are pushed; scrapeLeads then exports them, inside the try block of
\* the keyword, whose catch block swallows what exportData throws
ItemYields(extractedData, gmbListings) ==
    /\ entryPc = "items"
    /\ itemIdx <= Len(targets)
    /\ entryPoint = "scrapeUrls" => gmbListings = <<>>
    /\ LET itemLeads == createLeadsFromData(extractedData) \o
                        createLeadsFromGMBData(gmbListings)
           processed == processLeads(itemLeads)
       IN  /\ scraperLeads' = scraperLeads \o itemLeads
           /\ exported' = IF /\ entryPoint = "scrapeLeads"
                             /\ itemLeads # <<>>
                             /\ ~exportDataThrows(processed)
                          THEN Append(exported, processed)
                          ELSE exported
    /\ itemIdx' = itemIdx + 1
    /\ UNCHANGED <<entryPoint, targets, entryPc, delivered, isRunning, browserOpen,
                   callers, walker, governor>>

\* scrapeUrls lines 274-291, scrapeLeads lines 165-182: the combined export,
\* then return this.leads; the outer catch block rethrows
Export ==
    /\ entryPc = "items"
    /\ itemIdx > Len(targets)
    /\ LET processedLeads == processLeads(scraperLeads)
       IN  IF Len(scraperLeads) > 0 /\ exportDataThrows(processedLeads)
           THEN /\ delivered' = [kind |-> "thrown", error |-> "No leads to export"]
                /\ exported' = exported
           ELSE /\ delivered' = [kind |-> "returned", leads |-> scraperLeads]
                /\ exported' = IF Len(scraperLeads) > 0
                               THEN Append(exported, processedLeads)
                               ELSE exported
    /\ entryPc' = "finally"
    /\ UNCHANGED <<entryPoint, targets, itemIdx, scraperLeads, isRunning, browserOpen,
                   callers, walker, governor>>

\* scrapeUrls lines 292-295, scrapeLeads lines 183-186
Finally ==
    /\ entryPc = "finally"
    /\ browserOpen' = FALSE
    /\ isRunning' = FALSE
    /\ entryPc' = "settled"
    /\ UNCHANGED <<entryPoint, targets, itemIdx, scraperLeads, exported, delivered,
                   callers, walker, governor>>

InitPipeline ==
    /\ entryPoint \in {"scrapeUrls", "scrapeLeads"}
    /\ targets \in SeqsUpTo(Pages, MaxUrls)
    /\ itemIdx = 1
    /\ scraperLeads = <<>>
    /\ exported = <<>>
    /\ entryPc = "items"
    /\ delivered = [kind |-> "pending"]
    /\ isRunning = TRUE
    /\ browserOpen = TRUE
    /\ callers = <<>>
    /\ GovernorIdle
    /\ extraction = NoExtraction
    /\ urls = <<>>
    /\ maxDepth = 0
    /\ maxChildLinksPerPage = 0
    /\ visitedUrls = {}
    /\ pc = "idle"
    /\ currentDepth = 0
    /\ urlsToProcess = <<>>
    /\ processedUrls = {}
    /\ allResults = <<>>
    /\ batches = <<>>
    /\ batchIdx = 1
    /\ batchIds = <<>>
    /\ results = <<>>
    /\ fetches = <<>>
    /\ outcome = <<>>

NextPipeline ==
    \/ ItemYieldsNothing
    \/ /\ itemIdx <= Len(targets)
       /\ \E extractedData \in extractLeadsResults(targets[itemIdx]) :
             \E gmbListings \in GmbListings : ItemYields(extractedData, gmbListings)
    \/ Export
    \/ Finally

SpecPipeline == InitPipeline /\ [][NextPipeline]_vars

----------------------------------------------------------------------------
(* One filterAndProcessLinks call of either extractor *)

\* every accepted link is marked visited by the call that accepts it
visitedAfterFilterMarking(childLinks) ==
    visitedUrls \cup { childLinks[k].url : k \in DOMAIN childLinks }

\* The visited set after a filterAndProcessLinks call that gave childLinks:
\* the call, resolveUrl and isValidChildLink read it (line 92) and write nothing
visitedAfterFilter(childLinks) == visitedUrls

\* childLinkExtractor.js, filterAndProcessLinks(rawLinks, baseUrl, currentDepth)
ExtractStrict ==
    /\ extraction.variant = "called"
    /\ extraction' =
          [extraction EXCEPT !.variant = "strict",
                             !.childLinks = filterAndProcessLinks(extraction.rawLinks,
                                               extraction.baseUrl, extraction.currentDepth)]
    /\ visitedUrls' = visitedAfterFilter(extraction'.childLinks)
    /\ UNCHANGED <<urls, maxDepth, maxChildLinksPerPage, pc, currentDepth,
                   urlsToProcess, processedUrls, allResults, batches, batchIdx,
                   batchIds, results, fetches, outcome, isRunning, browserOpen, callers,
                   governor, pipeline>>

\* proxyManager.js, filterAndProcessLinks(rawLinks, baseUrl, currentDepth)
ExtractOpen ==
    /\ extraction.variant = "called"
    /\ extraction' =
          [extraction EXCEPT !.variant = "open",
                             !.childLinks = filterAndProcessLinksOpen(extraction.rawLinks,
                                               extraction.baseUrl, extraction.currentDepth)]
    /\ visitedUrls' = visitedAfterFilter(extraction'.childLinks)
    /\ UNCHANGED <<urls, maxDepth, maxChildLinksPerPage, pc, currentDepth,
                   urlsToProcess, processedUrls, allResults, batches, batchIdx,
                   batchIds, results, fetches, outcome, isRunning, browserOpen, callers,
                   governor, pipeline>>

InitFilter ==
    /\ extraction \in [variant : {"called"},
                        rawLinks : SeqsUpTo(Links, MaxRawLinks) \cup ScenarioPages \cup
                                   {RepeatedAnchorPage},
                        baseUrl : SeedUrls, currentDepth : 0..MaxDepthArg,
                        childLinks : {<<>>}]
    /\ maxChildLinksPerPage \in 0..MaxCap
    /\ visitedUrls \in { {}, {<<"https://", "example.com", "/about">>} }
    /\ GovernorIdle
    /\ PipelineIdle
    /\ urls = <<>>
    /\ maxDepth = 0
    /\ pc = "idle"
    /\ currentDepth = 0
    /\ urlsToProcess = <<>>
    /\ processedUrls = {}
    /\ allResults = <<>>
    /\ batches = <<>>
    /\ batchIdx = 1
    /\ batchIds = <<>>
    /\ results = <<>>
    /\ fetches = <<>>
    /\ outcome = <<>>
    /\ isRunning = FALSE
    /\ browserOpen = FALSE
    /\ callers = <<>>

NextFilter == ExtractStrict \/ ExtractOpen

SpecFilter == InitFilter /\ [][NextFilter]_vars

----------------------------------------------------------------------------
(* One scrapeWebsitesWithDepth call inside a running session *)

Init ==
    /\ urls \in { [k \in DOMAIN us |-> [url |-> us[k]]] : us \in SeqsUpTo(SeedUrls, MaxSeeds) }
    /\ maxDepth \in 0..MaxDepthArg
    /\ maxChildLinksPerPage \in 0..MaxCap
    /\ visitedUrls \in { {}, {<<"https://", "example.com", "/about">>} }
    /\ pc = "call"
    /\ currentDepth = 0
    /\ urlsToProcess = <<>>
    /\ processedUrls = {}
    /\ allResults = <<>>
    /\ batches = <<>>
    /\ batchIdx = 1
    /\ batchIds = <<>>
    /\ results = <<>>
    /\ fetches = <<>>
    /\ outcome = <<>>
    /\ isRunning = TRUE
    /\ browserOpen = TRUE
    /\ callers = <<>>
    /\ extraction = NoExtraction
    /\ GovernorIdle
    /\ PipelineIdle

Next ==
    \/ Begin
    \/ LoopExit
    \/ DepthStart
    \/ StartBatch
    \/ \E id \in DOMAIN fetches : FetchSettle(id)
    \/ AwaitBatch
    \/ Expand
    \/ Finish

Spec == Init /\ [][Next]_vars

(* The same call with a maxDepth above MAX_DEPTH, as index.js lines 508-531
   and scrapeUrls pass it on, from one seed *)

InitDeep ==
    /\ urls = <<[url |-> <<"https://", "example.com">>]>>
    /\ maxDepth \in (MaxDepthArg + 1)..MaxDeepArg
    /\ maxChildLinksPerPage \in 1..MaxCap
    /\ visitedUrls = {}
    /\ pc = "call"
    /\ currentDepth = 0
    /\ urlsToProcess = <<>>
    /\ processedUrls = {}
    /\ allResults = <<>>
    /\ batches = <<>>
    /\ batchIdx = 1
    /\ batchIds = <<>>
    /\ results = <<>>
    /\ fetches = <<>>
    /\ outcome = <<>>
    /\ isRunning = TRUE
    /\ browserOpen = TRUE
    /\ callers = <<>>
    /\ extraction = NoExtraction
    /\ GovernorIdle
    /\ PipelineIdle

SpecDeep == InitDeep /\ [][Next]_vars

(* The same call in a session that can be aborted: stop() or a signal *)

NextAbort ==
    \/ Next
    \/ Stop
    \/ Terminate

SpecAbort == Init /\ [][NextAbort]_vars

----------------------------------------------------------------------------
(* Properties of the walk *)

matchesExclude(url) == \E k \in 1..Len(EXCLUDE_PATTERNS) : includes(url, EXCLUDE_PATTERNS[k])

\* C3: for every page and every maxChildLinksPerPage, 0 and 1 included, the
\* number of child links filterAndProcessLinks returns never exceeds
\* maxChildLinksPerPage.
C3_FanOutCap ==
    extraction.variant \in {"strict", "open"} =>
        Len(extraction.childLinks) <= maxChildLinksPerPage

\* C4: a link whose resolved URL contains a configured exclude substring is
\* never among the child links that classification accepts, for all pages,
\* link orders, visited sets and both extractors.
C4_ExcludedNeverAccepted ==
    \A k \in DOMAIN extraction.childLinks : ~matchesExclude(extraction.childLinks[k].url)

\* the strict extractor met an excluded anchor first, had room for it, and
\* accepted a later anchor
C4_Witness ==
    /\ extraction.variant = "strict"
    /\ Len(extraction.rawLinks) = 2
    /\ matchesExclude(resolved[extraction.rawLinks[1], extraction.baseUrl])
    /\ Len(extraction.childLinks) = 1
    /\ maxChildLinksPerPage = 2

active(c) == callers[c].pc \in {"init", "scraping", "closing"}

\* C8: on one LeadScraper instance at most one scrapeLeads / scrapeUrls
\* session is active at any time, under every interleaving of scrapeLeads,
\* scrapeUrls, stop and reset.
C8_SingleActiveSession ==
    Cardinality({ c \in DOMAIN callers : active(c) }) <= 1

\* C9: after stop() or a termination signal no new page fetch is started and
\* the shared browser is closed only once every fetch in flight has settled:
\* no fetch is ever unsettled while the browser is closed.
C9_AbortLetsFetchesSettle ==
    ~browserOpen => \A i \in DOMAIN fetches : Settled(i)

\* C13: for the page https://example.com holding the links (/about, About Us),
\* (/x.pdf, Download) and (#top, Top), the child links of depth 1 are exactly
\* https://example.com/about: the .pdf link resolves against the page and
\* matches an exclude pattern, the fragment-only href fails resolution.
C13_ScenarioFrontier ==
    LET page == <<"https://", "example.com">>
    IN  ( /\ extraction.variant = "strict"
          /\ extraction.rawLinks \in ScenarioPages
          /\ extraction.baseUrl = page
          /\ extraction.currentDepth = 0
          /\ visitedUrls = {} )
        => /\ extraction.childLinks =
                 << [url |-> <<"https://", "example.com", "/about">>, depth |-> 1,
                     parentUrl |-> page] >>
           /\ \A k \in 1..3 :
                 LET link == extraction.rawLinks[k]
                 IN  /\ link.href = <<"/x", ".pdf">> =>
                           /\ resolved[link, page] = <<"https://", "example.com", "/x", ".pdf">>
                           /\ matchesExclude(resolved[link, page])
                     /\ link.href = <<"#", "top">> => resolved[link, page] = Null

C13_Witness ==
    /\ extraction.variant = "strict"
    /\ extraction.rawLinks \in ScenarioPages
    /\ extraction.rawLinks[1].href = <<"#", "top">>
    /\ extraction.baseUrl = <<"https://", "example.com">>
    /\ extraction.currentDepth = 0
    /\ visitedUrls = {}
    /\ maxChildLinksPerPage = 1
    /\ Len(extraction.childLinks) = 1

isChild(urlData) == "depth" \in DOMAIN urlData

depthOf(urlData) == IF isChild(urlData) THEN urlData.depth ELSE 0

fetchesOf(url) == { i \in DOMAIN fetches : fetches[i].url = url }

\* C1: within one scrapeWebsitesWithDepth run no URL is fetched (scrapeWebsite
\* started for it) more than once.
C1_NoUrlFetchedTwice ==
    \A i, j \in DOMAIN fetches : i # j => fetches[i].url # fetches[j].url

\* C2: no fetch is started at a depth greater than maxDepth, every returned
\* result has depth <= maxDepth, every scheduled child link carries the depth
\* of the page it was found on plus one and is fetched in the iteration of
\* exactly that depth.
C2_DepthBound ==
    /\ \A i \in DOMAIN fetches : fetches[i].depth <= maxDepth
    /\ \A k \in DOMAIN allResults : allResults[k].depth <= maxDepth
    /\ \A k \in DOMAIN urlsToProcess :
         LET c == urlsToProcess[k]
         IN  isChild(c) =>
               /\ fetchesOf(c.parentUrl) # {}
               /\ \A i \in fetchesOf(c.parentUrl) : c.depth = fetches[i].depth + 1
               /\ \A i \in fetchesOf(c.url) : fetches[i].depth = c.depth

C2_Witness ==
    /\ maxDepth = 2
    /\ pc = "done"
    /\ \E k \in DOMAIN allResults : allResults[k].depth = 2
    /\ \E k \in DOMAIN urlsToProcess : isChild(urlsToProcess[k]) /\ urlsToProcess[k].depth = 2

\* C5: a URL that occurs twice in the seed list is fetched once at depth 0.
C5_DuplicateSeedFetchedOnce ==
    \A k \in DOMAIN urls :
        Cardinality({ i \in fetchesOf(urls[k].url) : fetches[i].depth = 0 }) <= 1

\* C6: with maxDepth = 0 there is one fetch round, on the seeds only: no child
\* link is scheduled or fetched and no result has depth 1, whatever links the
\* seed pages contain.
C6_MaxDepthZero ==
    (maxDepth = 0 /\ pc # "call") =>
        /\ urlsToProcess = urls
        /\ Len(fetches) <= Len(urls)
        /\ \A i \in DOMAIN fetches :
              fetches[i].depth = 0 /\ fetches[i].url \in urlSetOf(urls)
        /\ \A k \in DOMAIN allResults : allResults[k].depth = 0

\* the seeds have been fetched and their pages held links worth following
C6_Witness ==
    /\ maxDepth = 0
    /\ pc = "batch"
    /\ batchIdx > Len(batches)
    /\ Len(results) = 2
    /\ \A k \in DOMAIN results : results[k].childLinks # <<>>

\* C7: no fetch of depth d+1 starts until every fetch of depth d has settled,
\* and child links are scheduled only from a depth all of whose URLs have been
\* fetched and have settled.
C7_DepthBarrier ==
    /\ \A i, j \in DOMAIN fetches : fetches[i].depth < fetches[j].depth => Settled(i)
    /\ \A k \in DOMAIN urlsToProcess :
         LET c == urlsToProcess[k]
         IN  isChild(c) =>
               /\ \A i \in DOMAIN fetches : fetches[i].depth = c.depth - 1 => Settled(i)
               /\ \A m \in DOMAIN urlsToProcess :
                     depthOf(urlsToProcess[m]) = c.depth - 1
                        => fetchesOf(urlsToProcess[m].url) # {}

\* two fetches of depth 0 ran concurrently and a fetch of depth 1 is in flight
C7_Witness ==
    /\ \E i \in DOMAIN fetches : fetches[i].depth = 1 /\ ~Settled(i)
    /\ Cardinality({ i \in DOMAIN fetches : fetches[i].depth = 0 }) >= 2

\* C12: a page whose extracted text is shorter than 100 characters is a
\* failed fetch: its call returns null, and results and scheduled child links
\* only ever come from fetches that returned a result.
C12_ShortPageIsFailedFetch ==
    /\ \A id \in DOMAIN outcome :
          outcome[id].insufficient =>
              outcome[id].value = <<>> /\ fetches[id].st = "failed"
    /\ \A k \in DOMAIN results :
          \E i \in fetchesOf(results[k].url) :
              fetches[i].st = "returned" /\ fetches[i].depth = results[k].depth
    /\ \A k \in DOMAIN allResults :
          \E i \in fetchesOf(allResults[k].url) :
              fetches[i].st = "returned" /\ fetches[i].depth = allResults[k].depth
    /\ \A k \in DOMAIN urlsToProcess :
          isChild(urlsToProcess[k]) =>
              \E i \in fetchesOf(urlsToProcess[k].parentUrl) : fetches[i].st = "returned"

\* the only seed page was too short and its call has settled, as a failure
C12_Witness ==
    /\ maxDepth >= 1
    /\ Len(fetches) = 1
    /\ fetches[1].st = "failed"
    /\ \E id \in DOMAIN outcome : outcome[id].insufficient
    /\ pc = "await"

returnedFetches == SelectSeq(fetches, LAMBDA f : f.st = "returned")

\* C10: no page failure aborts the walk: whatever fetches of a depth fail,
\* every URL of the depth is fetched, the successful results are expanded to
\* the next depth and the walk returns exactly the successful results.
C10_FailuresDoNotAbort ==
    /\ [](pc \in {"loop", "done", "closed"} =>
            /\ \A u \in processedUrls : \E i \in fetchesOf(u) : Settled(i)
            /\ allResults = [k \in 1..Len(returnedFetches) |->
                                [url |-> returnedFetches[k].url,
                                 depth |-> returnedFetches[k].depth]])
    /\ [][(pc = "batch" /\ pc' = "loop" /\ currentDepth < maxDepth) =>
            \A k \in DOMAIN results : \A m \in DOMAIN results[k].childLinks :
                results[k].childLinks[m].url \in urlSetOf(urlsToProcess')]_vars

\* one seed failed, the other returned and a page found on it returned too
C10_Witness ==
    /\ pc = "done"
    /\ \E i, j \in DOMAIN fetches :
          /\ fetches[i].depth = 0 /\ fetches[i].st = "failed"
          /\ fetches[j].depth = 0 /\ fetches[j].st = "returned"
    /\ \E k \in DOMAIN allResults : allResults[k].depth = 1

----------------------------------------------------------------------------
(* Properties of the governed classifier calls *)

\* how the governed call of the latest page ended
lastEnd == pageLog[Len(pageLog)]

\* steps of retryWithBackoff: it is entered for the next page, its pending
\* operation() call rejects, its pending operation() call resolves
callEntered ==
    /\ extractorPc = "loop"
    /\ pageIdx <= Len(websiteData)
    /\ <<extractorPc, pageIdx, batchNo>>' # <<extractorPc, pageIdx, batchNo>>

attemptFailed ==
    /\ extractorPc = "calling"
    /\ extractorPc' # "calling"
    /\ lastError' # <<>>

attemptSucceeded ==
    /\ extractorPc = "calling"
    /\ extractorPc' # "calling"
    /\ lastError' = <<>>

\* the leads extractLeads holds: its results and the allLeads of the large
\* page it is at
gathered == extracted \o allLeads

\* the circuit is open and its cooldown has not elapsed
inCooldown == circuitOpen /\ now - lastFailureTime <= circuitBreakerTimeout

\* C14: every failed attempt adds one to the failure count and every
\* successful one resets it to 0 and closes the circuit; the circuit is open
\* exactly when the count has reached the threshold, so fewer consecutive
\* failures leave it closed; a governed call entered while the circuit is open
\* and within the cooldown ends at once with the fallback result.
C14_BreakerOpensAtThreshold ==
    /\ [](circuitOpen <=> failureCount >= circuitBreakerThreshold)
    /\ [][attemptFailed => failureCount' = failureCount + 1]_vars
    /\ [][attemptSucceeded => failureCount' = 0 /\ ~circuitOpen']_vars
    /\ [][(callEntered /\ inCooldown) =>
            /\ extractorPc' = "loop"
            /\ invocations' = 0
            /\ pageLog' = Append(pageLog,
                  [page |-> pageIdx, via |-> "circuit",
                   leads |-> leadsOf(fallback(websiteData[pageIdx]), websiteData[pageIdx])])]_vars

\* the fifth consecutive failure opened the circuit during the first page and
\* the call of the second page, in the cooldown, was answered by the fallback
C14_Witness ==
    /\ Len(pageLog) = 2
    /\ pageLog[1].via = "exhausted"
    /\ pageLog[2].via = "circuit"
    /\ failureCount = circuitBreakerThreshold
    /\ circuitOpen

\* C15: operation() is never invoked while the circuit is open and its
\* cooldown has not elapsed, whatever the attempt of the retry loop.
C15_NoAttemptWhileOpen ==
    [][(extractorPc = "retry" /\ extractorPc' = "calling") => ~inCooldown]_vars

\* C16: the result of a governed call that was short-circuited by the open
\* circuit, or that gave up after its last transient failure, is the basic
\* extraction of the text of its page.
C16_FallbackFromPageText ==
    \A k \in DOMAIN pageLog :
        pageLog[k].via \in {"circuit", "exhausted"} =>
            pageLog[k].leads = extractBasicLeads(<<websiteData[pageLog[k].page]>>)

\* C17: a governed call entered with the circuit open and more than
\* circuitBreakerTimeout after the last recorded failure closes the circuit,
\* resets the failure count to 0 and goes on to its first attempt; a governed
\* call entered within the cooldown, its last instant included, is answered
\* by the open circuit and leaves the breaker as it found it.
C17_RecloseAfterCooldown ==
    /\ [][(callEntered /\ circuitOpen /\ now - lastFailureTime > circuitBreakerTimeout) =>
            /\ ~circuitOpen'
            /\ failureCount' = 0
            /\ extractorPc' = "retry"
            /\ attempt' = 1]_vars
    /\ [][(callEntered /\ inCooldown) =>
            /\ UNCHANGED <<circuitOpen, failureCount, lastFailureTime>>
            /\ lastEnd'.via = "circuit"
            /\ invocations' = 0]_vars

\* the first page opened the circuit; the call of the second page, entered
\* after the cooldown, has closed it and is about to make its first attempt
C17_Witness ==
    /\ Len(pageLog) = 1
    /\ pageLog[1].via = "exhausted"
    /\ now - lastFailureTime > circuitBreakerTimeout
    /\ pageIdx = 2
    /\ extractorPc = "retry"
    /\ attempt = 1
    /\ failureCount = 0
    /\ ~circuitOpen

\* C18: one retryWithBackoff call invokes the operation at most maxRetries
\* times; a transient failure before the last attempt leads to the next
\* attempt, a transient failure of the last attempt ends the call with the
\* fallback result, which extractLeads receives as the leads of the page (no
\* error is thrown); an attempt that succeeds ends the call at once with the
\* result of that attempt.
C18_BoundedRetries ==
    /\ [](invocations <= maxRetries)
    /\ []((extractorPc = "loop" /\ pageLog # <<>> /\ lastEnd.via = "exhausted") =>
            invocations = maxRetries)
    /\ [][(attemptFailed /\ isRetryableError(lastError')) =>
            IF invocations < maxRetries
            THEN /\ extractorPc' = "retry"
                 /\ pageLog' = pageLog
            ELSE /\ extractorPc' = "loop"
                 /\ lastEnd'.via = "exhausted"
                 /\ lastEnd'.leads = leadsOf(fallback(websiteData[pageIdx]), websiteData[pageIdx])
                 /\ gathered' = gathered \o lastEnd'.leads]_vars
    /\ [][attemptSucceeded =>
            /\ extractorPc' = "loop"
            /\ lastEnd'.via \in {"classifier", "parse"}
            /\ invocations' = invocations
            /\ gathered' = gathered \o lastEnd'.leads]_vars

\* the call of the first page succeeded, the call of the second page has
\* just given up after five transient failures
C18_Witness ==
    /\ Len(pageLog) = 2
    /\ pageLog[1].via = "classifier"
    /\ pageLog[2].via = "exhausted"
    /\ extractorPc = "loop"
    /\ invocations = maxRetries
    /\ isRetryableError(lastError)

\* C19: an attempt that fails with a non-transient error is the last one of
\* its call (the only one when it is the first): the error leaves
\* retryWithBackoff, the page or batch of the call adds no lead, every lead
\* gathered before is kept and extractLeads moves to the next batch or page;
\* when extractLeads returns, every page and batch has had its call and the
\* result is the leads of all the calls that did not throw.
C19_NonTransientNotRetried ==
    /\ [][(attemptFailed /\ ~isRetryableError(lastError')) =>
            /\ extractorPc' = "loop"
            /\ invocations' = invocations
            /\ (attempt = 1 => invocations' = 1)
            /\ lastEnd'.via = "thrown"
            /\ lastEnd'.leads = <<>>
            /\ gathered' = gathered
            /\ IF batchNo < batchCount(websiteData[pageIdx])
               THEN pageIdx' = pageIdx /\ batchNo' = batchNo + 1
               ELSE pageIdx' = pageIdx + 1 /\ batchNo' = 1]_vars
    /\ [](extractorPc = "returned" =>
            /\ Len(pageLog) = unitsOf(websiteData)
            /\ extracted = flatten([k \in DOMAIN pageLog |-> pageLog[k].leads]))

\* the call of the first page threw at its first attempt, the call of the
\* second page succeeded and extractLeads has returned its lead
C19_Witness ==
    /\ extractorPc = "returned"
    /\ Len(pageLog) = 2
    /\ pageLog[1].via = "thrown"
    /\ pageLog[2].via = "classifier"
    /\ pageLog[2].page = 2
    /\ extracted = pageLog[2].leads
    /\ extracted # <<>>

\* C20: no governed call ends with an error, and a call that ends with the
\* basic extraction, because the classifier kept failing or because its
\* answer could not be parsed, has made maxRetries attempts first and returns
\* the basic extraction of the text of its page.
C20_RetriedThenFallback ==
    /\ \A k \in DOMAIN pageLog : pageLog[k].via # "thrown"
    /\ (extractorPc = "loop" /\ pageLog # <<>> /\ lastEnd.via \in {"parse", "exhausted"}) =>
            /\ invocations = maxRetries
            /\ lastEnd.leads = extractBasicLeads(<<websiteData[lastEnd.page]>>)

----------------------------------------------------------------------------
(* Properties of the entry points *)

----------------------------------------------------------------------------
(* scrapers/leadScraper.js: scrapeUrls(urls, depth) with depth > 0, the walker
   called once for every URL of the list.  targets is the list, itemIdx the
   loop variable i (from 1) and pc = "item" the top of the for loop. *)

CrawlUrls == SeedUrls \cup { <<"https://", "example.com", "/about">> }

\* scrapeUrls lines 210-227: the next URL is handed to scrapeWebsitesWithDepth
NextUrl ==
    /\ pc = "item"
    /\ itemIdx <= Len(targets)
    /\ urls' = <<[url |-> targets[itemIdx].url]>>
    /\ pc' = "call"
    /\ UNCHANGED <<maxDepth, maxChildLinksPerPage, visitedUrls, currentDepth,
                   urlsToProcess, processedUrls, allResults, batches, batchIdx,
                   batchIds, results, fetches, outcome, isRunning, browserOpen,
                   callers, extraction, governor, pipeline>>

\* scrapeUrls lines 239-271: the walk has returned, its results are turned
\* into leads and the loop goes on
UrlDone ==
    /\ pc = "done"
    /\ itemIdx' = itemIdx + 1
    /\ pc' = "item"
    /\ UNCHANGED <<entryPoint, targets, scraperLeads, exported, entryPc, delivered,
                   urls, maxDepth, maxChildLinksPerPage, visitedUrls, currentDepth,
                   urlsToProcess, processedUrls, allResults, batches, batchIdx,
                   batchIds, results, fetches, outcome, isRunning, browserOpen,
                   callers, extraction, governor>>

\* scrapeUrls lines 274-295: the list is exhausted, the browser is closed
CrawlEnd ==
    /\ pc = "item"
    /\ itemIdx > Len(targets)
    /\ isRunning' = FALSE
    /\ browserOpen' = FALSE
    /\ pc' = "closed"
    /\ UNCHANGED <<urls, maxDepth, maxChildLinksPerPage, visitedUrls, currentDepth,
                   urlsToProcess, processedUrls, allResults, batches, batchIdx,
                   batchIds, results, fetches, outcome, callers, extraction,
                   governor, pipeline>>

\* scrapeUrls lines 189-208: a fresh WebsiteContentScraper, and with it a
\* fresh ChildLinkExtractor, is made for the invocation
InitCrawl ==
    /\ entryPoint = "scrapeUrls"
    /\ targets \in { [k \in DOMAIN us |-> [url |-> us[k]]] : us \in SeqsUpTo(CrawlUrls, MaxUrls) }
    /\ itemIdx = 1
    /\ scraperLeads = <<>>
    /\ exported = <<>>
    /\ entryPc = "items"
    /\ delivered = [kind |-> "pending"]
    /\ urls = <<>>
    /\ maxDepth \in 1..MaxDepthArg
    /\ maxChildLinksPerPage \in 0..MaxCap
    /\ visitedUrls = {}
    /\ pc = "item"
    /\ currentDepth = 0
    /\ urlsToProcess = <<>>
    /\ processedUrls = {}
    /\ allResults = <<>>
    /\ batches = <<>>
    /\ batchIdx = 1
    /\ batchIds = <<>>
    /\ results = <<>>
    /\ fetches = <<>>
    /\ outcome = <<>>
    /\ isRunning = TRUE
    /\ browserOpen = TRUE
    /\ callers = <<>>
    /\ extraction = NoExtraction
    /\ GovernorIdle

NextCrawl ==
    \/ NextUrl
    \/ Begin
    \/ LoopExit
    \/ DepthStart
    \/ StartBatch
    \/ \E id \in DOMAIN fetches : FetchSettle(id)
    \/ AwaitBatch
    \/ Expand
    \/ UrlDone
    \/ CrawlEnd

SpecCrawl == InitCrawl /\ [][NextCrawl]_vars

----------------------------------------------------------------------------
(* scrapeWebsitesWithDepth called with a longer list, as scrapeLeads calls it
   with the search results of a keyword (leadScraper.js lines 89-99) *)

MaxBatchUrls == 4

\* search results: pairwise distinct pages of the model
SearchResults ==
    << <<"https://", "example.com">>,
       <<"https://", "other.org">>,
       <<"https://", "example.com", "/about">>,
       <<"https://", "example.com", "/team">>,
       <<"https://", "other.org", "/about">>,
       <<"https://", "example.com", "/x", ".pdf">>,
       <<"https://", "other.org", "/x", ".pdf">> >>

InitBatches ==
    /\ urls \in { [k \in 1..n |-> [url |-> SearchResults[k]]] :
                    n \in { m \in 0..MaxBatchUrls : m <= Len(SearchResults) } }
    /\ maxDepth \in 0..MaxDepthArg
    /\ maxChildLinksPerPage \in 0..MaxCap
    /\ visitedUrls = {}
    /\ pc = "call"
    /\ currentDepth = 0
    /\ urlsToProcess = <<>>
    /\ processedUrls = {}
    /\ allResults = <<>>
    /\ batches = <<>>
    /\ batchIdx = 1
    /\ batchIds = <<>>
    /\ results = <<>>
    /\ fetches = <<>>
    /\ outcome = <<>>
    /\ isRunning = TRUE
    /\ browserOpen = TRUE
    /\ callers = <<>>
    /\ extraction = NoExtraction
    /\ GovernorIdle
    /\ PipelineIdle

SpecBatches == InitBatches /\ [][Next]_vars

(* The same call when every page fetch settles and the event loop runs every
   continuation whose awaited promise has settled *)

WalkerStep ==
    \/ Begin
    \/ LoopExit
    \/ DepthStart
    \/ StartBatch
    \/ AwaitBatch
    \/ Expand

SpecLive ==
    /\ InitBatches
    /\ [][Next]_vars
    /\ WF_vars(WalkerStep)
    /\ WF_vars(\E id \in DOMAIN fetches : FetchSettle(id))

----------------------------------------------------------------------------
(* Properties of a page fetch and of the rounds of the walk *)

\* the step in which scrapeWebsite call id gives its page up without having
\* loaded it: the call settles with null, and not for lack of text
navigationGivenUp(id) ==
    /\ fetches[id].st = "loading"
    /\ fetches'[id].st = "failed"
    /\ outcome'[id].status = "fulfilled"
    /\ ~outcome'[id].insufficient

\* C21: a page whose navigation fails is tried again before it is given up:
\* when a call settles as a failed fetch because the page could not be loaded,
\* it is not the only attempt that was made for its URL.
C21_NavigationRetried ==
    [][\A id \in DOMAIN fetches :
          navigationGivenUp(id) => Cardinality(fetchesOf(fetches[id].url)) > 1]_vars


----------------------------------------------------------------------------
(* Lead assembly: scrapeUrls / scrapeLeads over pages for which the
   classifier answers with one lead each, any of CandidateLeads *)

MaxLeads == 3

\* leads as the classifier can give them: the same person written in several
\* ways, with and without a usable address or number, another person with the
\* same address, and a lead without a name
CandidateLeads ==
    { Ann,
      [name |-> "Dr. Ann", title |-> "", company |-> <<"Acme">>,
       email |-> "Ann@Acme.io", phone |-> "555-123-4567"],
      [name |-> "ANN", title |-> "", company |-> <<"Acme">>,
       email |-> "info@acme.io", phone |-> ""],
      [name |-> "Ann", title |-> "CEO", company |-> <<"Acme">>,
       email |-> "", phone |-> "555-123-4567"],
      [name |-> "Bob", title |-> "", company |-> <<"Acme">>,
       email |-> "ann@acme.io", phone |-> ""],
      [name |-> "", title |-> "", company |-> <<"Acme">>,
       email |-> "ann@acme.io", phone |-> ""] }

InitAssembly ==
    /\ entryPoint \in {"scrapeUrls", "scrapeLeads"}
    /\ targets \in SeqsUpTo({ page \in Pages : page.url = <<"https://", "example.com">> }, MaxLeads)
    /\ itemIdx = 1
    /\ scraperLeads = <<>>
    /\ exported = <<>>
    /\ entryPc = "items"
    /\ delivered = [kind |-> "pending"]
    /\ isRunning = TRUE
    /\ browserOpen = TRUE
    /\ callers = <<>>
    /\ GovernorIdle
    /\ extraction = NoExtraction
    /\ urls = <<>>
    /\ maxDepth = 0
    /\ maxChildLinksPerPage = 0
    /\ visitedUrls = {}
    /\ pc = "idle"
    /\ currentDepth = 0
    /\ urlsToProcess = <<>>
    /\ processedUrls = {}
    /\ allResults = <<>>
    /\ batches = <<>>
    /\ batchIdx = 1
    /\ batchIds = <<>>
    /\ results = <<>>
    /\ fetches = <<>>
    /\ outcome = <<>>

NextAssembly ==
    \/ ItemYieldsNothing
    \/ \E lead \in CandidateLeads : ItemYields(<<lead>>, <<>>)
    \/ Export
    \/ Finally

SpecAssembly == InitAssembly /\ [][NextAssembly]_vars

----------------------------------------------------------------------------
(* Properties of lead assembly *)

\* removeDuplicates line 1027-1031: the key of a lead that was processed
nameEmailKey(lead) == <<LowerNameTable[lead.name], cleanEmail(lead.email)>>

\* the candidates of the call after _processLead
processedCandidates == [k \in DOMAIN scraperLeads |-> processLead(scraperLeads[k])]

\* what the combined export of an entry point that has ended was given
assembledLeads ==
    IF delivered.kind = "returned" /\ scraperLeads # <<>>
    THEN exported[Len(exported)] ELSE <<>>

survivors(list, key) == { j \in DOMAIN list : nameEmailKey(list[j]) = key }

firstWith(key) ==
    CHOOSE i \in DOMAIN scraperLeads :
        /\ nameEmailKey(processedCandidates[i]) = key
        /\ \A j \in 1..(i - 1) : nameEmailKey(processedCandidates[j]) # key

----------------------------------------------------------------------------
(* Properties of link classification *)

\* the step of one filterAndProcessLinks call, of either extractor
filterCalled == extraction.variant = "called" /\ extraction'.variant # "called"

\* the same call made in the state the call left
filteredAgain ==
    IF extraction.variant = "strict"
    THEN filterAndProcessLinks(extraction.rawLinks, extraction.baseUrl,
                               extraction.currentDepth)
    ELSE filterAndProcessLinksOpen(extraction.rawLinks, extraction.baseUrl,
                                   extraction.currentDepth)

----------------------------------------------------------------------------
(* Properties of one scrapeUrls invocation *)

\* clearVisited runs: the step from the call of scrapeWebsitesWithDepth into its loop
visitedCleared == pc = "call" /\ pc' = "loop"

\* the scrapeWebsite calls a step starts
started == { i \in DOMAIN fetches' : i \notin DOMAIN fetches }

\* C25: in one invocation the visited set is cleared only before the first
\* fetch, and no fetch is started for a URL that was fetched earlier in the
\* invocation, for whichever seed.
C25_VisitedClearedOnce ==
    /\ [][visitedCleared => fetches = <<>>]_vars
    /\ [][\A i \in started : fetchesOf(fetches'[i].url) = {}]_vars


----------------------------------------------------------------------------
(* Properties of the text rules and of the same-host rule *)

\* the text of the anchor is shorter than 3 characters, has no letter, or is a
\* term of the extractor's list of generic navigation texts
rejectedText(link, genericTexts) ==
    LET linkText == toLowerCase(link.text)
    IN  \/ length(linkText) < 3
        \/ \A k \in DOMAIN linkText : linkText[k] \in NoLetters
        \/ linkText \in genericTexts

\* the anchors of the page a child link of the call can come from
anchorsOf(childLink) ==
    { k \in DOMAIN extraction.rawLinks :
         resolved[extraction.rawLinks[k], extraction.baseUrl] = childLink.url }

\* C26: a link whose text is too short, has no letter or is a generic
\* navigation term is rejected whatever its URL: every child link a call
\* returns comes from an anchor of the page whose text passes the three tests.
C26_TextRulesRejectWhateverUrl ==
    extraction.variant \in {"strict", "open"} =>
        \A m \in DOMAIN extraction.childLinks :
            \E k \in anchorsOf(extraction.childLinks[m]) :
                ~rejectedText(extraction.rawLinks[k],
                              IF extraction.variant = "strict" THEN genericNavTexts
                              ELSE genericNavTextsOpen)


\* the results of scrapeWebsite calls the walker holds with their child links
heldResults ==
    { results[k] : k \in DOMAIN results } \cup
    UNION { { outcome[id].value[k] : k \in DOMAIN outcome[id].value } : id \in DOMAIN outcome }

\* what the strict extractor asks of an accepted link besides its host
relevantLink(url, link) ==
    \/ \E k \in 1..Len(INCLUDE_PATTERNS) : includes(url, INCLUDE_PATTERNS[k])
    \/ \E keyword \in relevantKeywords : includes(toLowerCase(link.text), keyword)
    \/ length(toLowerCase(link.text)) > 10

\* C27: a child link of the strict extractor has the hostname of the page it
\* was found on and comes from an anchor whose URL contains an include
\* pattern or whose text holds a relevance keyword or is longer than 10
\* characters; every URL fetched at depth >= 1 has the hostname of a seed.
C27_SameHostOnly ==
    /\ \A result \in heldResults : \A m \in DOMAIN result.childLinks :
          LET childLink == result.childLinks[m]
          IN  /\ hostname(childLink.url) = hostname(result.url)
              /\ \E link \in WalkLinks :
                    /\ resolved[link, result.url] = childLink.url
                    /\ relevantLink(childLink.url, link)
    /\ \A i \in DOMAIN fetches :
          fetches[i].depth >= 1 =>
             \E k \in DOMAIN urls : hostname(fetches[i].url) = hostname(urls[k].url)

\* a walk from a seed of each host that fetched a page of each host at depth 1
C27_Witness ==
    /\ \A host \in {"example.com", "other.org"} :
          /\ \E k \in DOMAIN urls : hostname(urls[k].url) = host
          /\ \E i \in DOMAIN fetches : fetches[i].depth = 1 /\ hostname(fetches[i].url) = host
    /\ pc = "done"


----------------------------------------------------------------------------
(* Properties of the batches of a depth *)

inFlight == { i \in DOMAIN fetches : fetches[i].st = "loading" }

\* C28: at most maxConcurrent fetches are in flight; the URLs of a depth are
\* split, in order, into batches of at most maxConcurrent, only the last of
\* which can be shorter; fetches are started only when every fetch started
\* before has settled.
C28_BoundedConcurrency ==
    /\ [](Cardinality(inFlight) <= maxConcurrent)
    /\ [](\A k \in DOMAIN batches :
             /\ Len(batches[k]) \in 1..maxConcurrent
             /\ k < Len(batches) => Len(batches[k]) = maxConcurrent)
    /\ [][pc = "loop" /\ pc' = "batch" =>
             flatten(batches') = filterNew(urlsToProcess, processedUrls)]_vars
    /\ [][started # {} => inFlight = {}]_vars

\* the second batch of a depth is in flight after a first batch of three
C28_Witness ==
    /\ pc = "await"
    /\ batchIdx = 2
    /\ Len(batches[1]) = 3
    /\ inFlight # {}
    /\ Cardinality({ i \in DOMAIN fetches : Settled(i) }) = 3


----------------------------------------------------------------------------
(* Termination of the walk *)

\* the step that opens a fetch round: newUrls is not empty, scrapeWebsites is entered
roundOpened == pc = "loop" /\ pc' = "batch"

\* C29: when every fetch settles the walk returns; a fetch round is opened
\* for a depth of 0..maxDepth that no earlier round had, so there are at most
\* maxDepth + 1 rounds; and once every URL of the queue has been processed
\* the walk returns without a further fetch.
C29_Terminates ==
    /\ <>(pc = "done")
    /\ [][roundOpened => (currentDepth \in 0..maxDepth /\
                          \A i \in DOMAIN fetches : fetches[i].depth < currentDepth)]_vars
    /\ [](Cardinality({ fetches[i].depth : i \in DOMAIN fetches }) <= maxDepth + 1)
    /\ [][(pc = "loop" /\ urlSetOf(urlsToProcess) \subseteq processedUrls) =>
             (pc' = "done" /\ fetches' = fetches)]_vars
    /\ [][(pc \in {"done", "closed"}) => fetches' = fetches]_vars

\* a walk that could go two levels deeper has returned after its first
\* round, which gave a result without a child link
C29_Witness ==
    /\ pc = "done"
    /\ maxDepth = 2
    /\ currentDepth = 1
    /\ allResults # <<>>


----------------------------------------------------------------------------
(* Marking at schedule time *)

\* the child links of the result with which call id returns in this step
emitted(id) ==
    IF fetches[id].st = "loading" /\ fetches'[id].st = "returned"
    THEN { outcome'[id].value[1].childLinks[m].url :
              m \in DOMAIN outcome'[id].value[1].childLinks }
    ELSE {}

\* C30: a URL is in the visited set before a fetch of it starts, and no fetch
\* returns a child link to a page that is in flight or was fetched earlier in
\* the invocation.
C30_MarkedWhenScheduled ==
    /\ [][\A i \in started : fetches'[i].url \in visitedUrls]_vars
    /\ [][\A id \in DOMAIN fetches : \A url \in emitted(id) : fetchesOf(url) = {}]_vars


----------------------------------------------------------------------------
(* Who writes the visited set and the queue *)

\* C31: while a fetch is in flight the visited set, the set of processed URLs
\* and the queue of URLs to process do not change, whichever fetch of the
\* batch settles first; they change only in steps of the walker taken when no
\* fetch is in flight.
C31_WorkersOnlyRead ==
    [][inFlight # {} => /\ visitedUrls' = visitedUrls
                        /\ processedUrls' = processedUrls
                        /\ urlsToProcess' = urlsToProcess]_vars

\* one fetch of a batch has returned child links while another is in flight
C31_Witness ==
    /\ pc = "await"
    /\ inFlight # {}
    /\ \E id \in DOMAIN outcome :
          /\ outcome[id].value # <<>>
          /\ outcome[id].value[1].childLinks # <<>>


----------------------------------------------------------------------------
(* Properties of the child-link list of one page *)

\* C32: the child links returned for one page hold each resolved URL at most
\* once, in either extractor.
C32_NoDuplicateChildLink ==
    \A i, j \in DOMAIN extraction.childLinks :
        i # j => extraction.childLinks[i].url # extraction.childLinks[j].url


\* the anchors of the page the strict extractor accepts in the state of the
\* call: they resolve, to a URL that is not visited, and pass isValidChildLink
acceptable(link) ==
    /\ resolved[link, extraction.baseUrl] # Null
    /\ resolved[link, extraction.baseUrl] \notin visitedUrls
    /\ valid[link, extraction.baseUrl]

\* their URLs in document order, each URL at its first occurrence
acceptableUrls ==
    LET accepted == SelectSeq(extraction.rawLinks, acceptable)
        unique == uniqueByUrl([k \in DOMAIN accepted |->
                                  [url |-> resolved[accepted[k], extraction.baseUrl]]], {})
    IN  [k \in DOMAIN unique |-> unique[k].url]

\* C33: when the page has more acceptable links than maxChildLinksPerPage,
\* the child links returned are the first maxChildLinksPerPage of them, in
\* document order.
C33_FirstLinksKept ==
    (extraction.variant = "strict" /\ Len(acceptableUrls) > maxChildLinksPerPage) =>
        [k \in DOMAIN extraction.childLinks |-> extraction.childLinks[k].url] =
            SubSeq(acceptableUrls, 1, maxChildLinksPerPage)

----------------------------------------------------------------------------
(* Properties of the leads processLeads keeps *)

\* C34: every valid candidate given to processLeads (a cleaned name and a
\* cleaned email or phone) has a lead with its normalized (name, email) key in
\* the output, whatever the order of valid and invalid candidates.
C34_ValidLeadRepresented ==
    (entryPc \in {"finally", "settled"} /\ delivered.kind = "returned") =>
        \A i \in DOMAIN scraperLeads :
            validateLead(processedCandidates[i]) =>
                survivors(assembledLeads, nameEmailKey(processedCandidates[i])) # {}

----------------------------------------------------------------------------
(* Properties of the fields of the circuit breaker *)

\* the step of a recordSuccess, a recordFailure or an isCircuitOpen call
breakerStep ==
    \/ extractorPc = "calling" /\ extractorPc' # "calling"
    \/ callEntered

\* C35: after every recordSuccess, recordFailure and isCircuitOpen step the
\* circuit is open if and only if the failure count is at least the
\* threshold; the count is 0 right after a success and right after the reset
\* an isCircuitOpen call makes once the cooldown is over.
C35_OpenIffCountAtThreshold ==
    /\ [][breakerStep =>
            (circuitOpen' <=> failureCount' >= circuitBreakerThreshold)]_vars
    /\ [][attemptSucceeded => failureCount' = 0]_vars
    /\ [][(callEntered /\ circuitOpen /\ ~inCooldown) => failureCount' = 0]_vars

\* the first page opened the circuit; the call of the second, entered after
\* the cooldown, reset the breaker, and its first attempt succeeded
C35_Witness ==
    /\ Len(pageLog) = 2
    /\ pageLog[1].via = "exhausted"
    /\ pageLog[2].via = "classifier"
    /\ invocations = 1
    /\ failureCount = 0
    /\ ~circuitOpen

----------------------------------------------------------------------------
(* Properties of the running flag *)

\* a scrapeLeads / scrapeUrls call is made
called == Len(callers') = Len(callers) + 1

\* C36: when a session ends (its call returns or throws out of the finally
\* block) isRunning is false, and a call made while isRunning is false is
\* accepted; a call the guard rejects leaves isRunning true, and a session
\* that is still active exists.
C36_FlagReleased ==
    /\ [][\A c \in DOMAIN callers :
            (callers[c].pc = "closing" /\ callers'[c].pc = "returned") => ~isRunning']_vars
    /\ [][(called /\ ~isRunning) => callers'[Len(callers')].pc = "init"]_vars
    /\ [][(called /\ callers'[Len(callers')].pc = "rejected") =>
            /\ isRunning /\ isRunning'
            /\ \E c \in DOMAIN callers : active(c) /\ callers'[c] = callers[c]]_vars

\* a call was rejected while the first session was active; the first session
\* has ended and the call made after that was accepted
C36_Witness ==
    /\ Len(callers) = 3
    /\ callers[1].pc = "returned"
    /\ callers[2].pc = "rejected"
    /\ callers[3].pc = "init"
    /\ isRunning

----------------------------------------------------------------------------
(* Properties of a walk asked to go deeper than MAX_DEPTH *)

minOf(a, b) == IF a < b THEN a ELSE b

\* C37: a page whose fetch returned child links was fetched at a depth below
\* MAX_DEPTH, and no page is fetched at a depth above the smaller of maxDepth
\* and MAX_DEPTH, also when maxDepth is above MAX_DEPTH.
C37_DepthCappedByConfig ==
    /\ \A id \in DOMAIN outcome :
          (outcome[id].value # <<>> /\ outcome[id].value[1].childLinks # <<>>) =>
              fetches[id].depth < MAX_DEPTH
    /\ \A id \in DOMAIN fetches : fetches[id].depth <= minOf(maxDepth, MAX_DEPTH)

\* a walk with maxDepth above MAX_DEPTH has ended with a page fetched at depth
\* MAX_DEPTH, the last of a chain of pages
C37_Witness ==
    /\ pc = "done"
    /\ maxDepth > MAX_DEPTH
    /\ \E id \in DOMAIN fetches :
          fetches[id].depth = MAX_DEPTH /\ fetches[id].st = "returned"

----------------------------------------------------------------------------
(* Properties of the browser pages of the fetches *)

\* scrapeWebsites has returned to the walker
scrapeWebsitesReturned == pc = "batch" /\ batchIdx > Len(batches)

----------------------------------------------------------------------------
(* Properties of the leads of the basic extraction *)

\* the leads createLeadsFromData makes of the basic extraction of the targets
basicLeads ==
    UNION { LET leads == createLeadsFromData(extractBasicLeads(<<targets[k]>>))
            IN  { leads[i] : i \in DOMAIN leads } : k \in DOMAIN targets }

\* C39: a lead of the basic extraction has an empty name, fails validateLead
\* once processed, is dropped by processLeads, and is in no list handed to the
\* export.
C39_FallbackLeadsNotExported ==
    /\ \A k \in DOMAIN targets :
          \A i \in DOMAIN extractBasicLeads(<<targets[k]>>) :
             extractBasicLeads(<<targets[k]>>)[i].name = ""
    /\ \A lead \in basicLeads :
          /\ ~validateLead(processLead(lead))
          /\ processLeads(<<lead>>) = <<>>
          /\ \A e \in DOMAIN exported : \A j \in DOMAIN exported[e] :
                exported[e][j] # processLead(lead)
    /\ \A e \in DOMAIN exported : \A j \in DOMAIN exported[e] : exported[e][j].name # ""

\* the basic extraction gave a lead with a phone number for one target, a
\* named lead came from elsewhere, and the combined export was made
C39_Witness ==
    /\ entryPc = "settled"
    /\ delivered.kind = "returned"
    /\ \E i \in DOMAIN scraperLeads :
          /\ scraperLeads[i] \in basicLeads
          /\ scraperLeads[i].phone # ""
    /\ exported # <<>>
    /\ Len(exported[Len(exported)]) = 1

====
